---- MODULE Spec2Model ----
(***************************************************************************)
(* Verification model of xterm-addon-image: the QOI pixel codec (wasm      *)
(* encoder and decoder), the wasm base64 stream decoder, the IIP header    *)
(* parser, the image storage, the IIP sequence handler, the options of     *)
(* ImageAddon and the sixel decoder worker.  Every                         *)
(* component has its own specification (SpecQoi, SpecB64, SpecHP,          *)
(* SpecStorage, SpecIIP, SpecAddon, SpecWorker) over its own group of      *)
(* variables; the other groups stay idle.                                  *)
(***************************************************************************)
EXTENDS Integers, Sequences, FiniteSets, TLC

VARIABLES
  qpc,     \* QOI round trip: position of the test driver
  qin,     \* QOI: the input [buf, w, h, stale]
  qenc,    \* QOI: state of enc() [i, prev, run, index, bytes]
  qdec,    \* QOI: state of dec() / QoiDecoder [rp, px, index, out, w, h, res]
  bpc,     \* base64: position of the caller
  bin,     \* base64: the input [payload, size, orig, kind]
  bd,      \* base64: ChunkInplaceDecoder + wasm State
  bcur,    \* base64: number of payload symbols delivered so far
  bret,    \* base64: return value of the last put / end call
  bparts,  \* base64: the put calls so far: calls with data (up to 2), empty chunks
  hpc,     \* header parser: position of the caller
  hin,     \* header parser: the whole input
  hcur,    \* header parser: number of input code units delivered so far
  hp,      \* header parser: HeaderParser fields
  hret,    \* header parser: return value of the last parse call
  st,      \* storage: ImageStorage state
  grid,    \* storage: the cell reference table of the grid
  stlast,  \* storage: the last operation completed
  stbase,  \* storage: usage when the alternate buffer was entered, -1 once another
           \* operation than addImage has run since
  ipc,     \* IIP: position of the caller
  iin,     \* IIP: the text of the current sequence, and its number
  icur,    \* IIP: code units of the sequence delivered so far
  ih,      \* IIP: the handler
  ifresh,  \* IIP: a handler constructed at the start of the current sequence
  ires,    \* IIP: what end() returned, and how its promise settled
  ain,     \* addon: the options handed to the constructor of ImageAddon
  ad,      \* addon: ImageAddon with its storage, handlers and the last report
  ah,      \* addon: the last operation [last, arg, ret]
  wk,      \* worker: the globals of the decoder worker and its sixel decoder
  wout,    \* worker: the messages the last message handler call has posted
  wh,      \* worker: the current image [phase, exceeded]
  jp       \* jpgSize: one call [d, i, blockLength, n, pc, ret]

qoiVars == <<qpc, qin, qenc, qdec>>
b64Vars == <<bpc, bin, bd, bcur, bret, bparts>>
hpVars  == <<hpc, hin, hcur, hp, hret>>
stVars  == <<st, grid, stlast, stbase>>
iipVars == <<ipc, iin, icur, ih, ifresh, ires>>
addonVars == <<ain, ad, ah>>
wkVars  == <<wk, wout, wh>>
jpVars  == <<jp>>
vars    == <<qpc, qin, qenc, qdec, bpc, bin, bd, bcur, bret, bparts,
             hpc, hin, hcur, hp, hret, st, grid, stlast, stbase,
             ipc, iin, icur, ih, ifresh, ires, ain, ad, ah, wk, wout, wh, jp>>

(***************************************************************************)
(* Machine arithmetic.                                                     *)
(***************************************************************************)
Pow2(n) == 2 ^ n

\* An unsigned 32-bit value is kept as the integer x with -2^31 < x < 2^31 that it
\* is congruent to: the unsigned comparison x < n (n small) then holds iff 0 <= x < n.
ULess(x, n) == 0 <= x /\ x < n

U8(x) == x % 256

RECURSIVE BitOr(_, _)
BitOr(a, b) ==
  IF a = 0 THEN b
  ELSE IF b = 0 THEN a
  ELSE (IF a % 2 = 1 \/ b % 2 = 1 THEN 1 ELSE 0) + 2 * BitOr(a \div 2, b \div 2)

RECURSIVE BitAnd(_, _)
BitAnd(a, b) ==
  IF a = 0 \/ b = 0 THEN 0
  ELSE (IF a % 2 = 1 /\ b % 2 = 1 THEN 1 ELSE 0) + 2 * BitAnd(a \div 2, b \div 2)

Shl(a, n) == a * Pow2(n)

Shr(a, n) == a \div Pow2(n)

Min(a, b) == IF a < b THEN a ELSE b

Max(a, b) == IF a < b THEN b ELSE a

Rep(x, n) == [i \in 1..n |-> x]

\* element i (0-based) of a byte array; memory outside the array reads as 0
ByteAt(d, i) == IF i >= 0 /\ i < Len(d) THEN d[i + 1] ELSE 0

(***************************************************************************)
(* QOI pixel codec.  A pixel is [r, g, b, a]; a pixel buffer is the        *)
(* sequence of its pixels (4 bytes each), an encoded image a byte sequence.*)
(***************************************************************************)
QOI_OP_INDEX == 0
QOI_OP_DIFF == 64
QOI_OP_LUMA == 128
QOI_OP_RUN == 192
QOI_OP_RGB == 254
QOI_OP_RGBA == 255
QOI_MASK_2 == 192
QOI_HEADER_SIZE == 14
QOI_PADDING == 8
MAX_RUN == 62

Px(r, g, b, a) == [r |-> r, g |-> g, b |-> b, a |-> a]

\* px.v = 0xFF000000 on a little-endian union
PxStart == Px(0, 0, 0, 255)

PxZero == Px(0, 0, 0, 0)

\* __builtin_memset(index, 0, sizeof(index))
IndexZero == [k \in 0..63 |-> PxZero]

QOI_COLOR_HASH(C) == BitAnd(C.r * 3 + C.g * 5 + C.b * 7 + C.a * 11, 63)

\* __builtin_bswap32(width) stored little-endian = the 4 bytes big-endian
BE32(x) == << U8(Shr(x, 24)), U8(Shr(x, 16)), U8(Shr(x, 8)), U8(x) >>

\* the 14 header bytes written by enc(): magic "qoif", width, height, 4, 0
EncHeader(w, h) == <<113, 111, 105, 102>> \o BE32(w) \o BE32(h) \o <<4, 0>>

\* the bytes enc() emits for a pixel that is neither a run nor an index hit
EncPixel(px, prev) ==
  LET vr == px.r - prev.r
      vg == px.g - prev.g
      vb == px.b - prev.b
      vg_r == vr - vg
      vg_b == vb - vg
  IN IF px.a = prev.a
     THEN IF ULess(vr + 2, 4) /\ ULess(vg + 2, 4) /\ ULess(vb + 2, 4)
          THEN << U8(BitOr(QOI_OP_DIFF,
                    BitOr(Shl(vr + 2, 4), BitOr(Shl(vg + 2, 2), vb + 2)))) >>
          ELSE IF ULess(vg_r + 8, 16) /\ ULess(vg + 32, 64) /\ ULess(vg_b + 8, 16)
          THEN << U8(BitOr(QOI_OP_LUMA, vg + 32)),
                  U8(BitOr(Shl(vg_r + 8, 4), vg_b + 8)) >>
          ELSE << QOI_OP_RGB, px.r, px.g, px.b >>
     ELSE << QOI_OP_RGBA, px.r, px.g, px.b, px.a >>

\* enc() up to the pixel loop
EncBegin(w, h) ==
  [i |-> 1, prev |-> PxStart, run |-> 0, index |-> IndexZero, bytes |-> EncHeader(w, h)]

\* one iteration of the pixel loop of enc()
EncStep(e, pixels) ==
  LET px == pixels[e.i]
      last == (e.i = Len(pixels))
  IN IF px = e.prev
     THEN IF e.run + 1 = MAX_RUN \/ last
          THEN [e EXCEPT !.i = e.i + 1, !.run = 0, !.prev = px,
                         !.bytes = Append(e.bytes, BitOr(QOI_OP_RUN, e.run))]
          ELSE [e EXCEPT !.i = e.i + 1, !.run = e.run + 1, !.prev = px]
     ELSE LET out1 == IF e.run > 0
                      THEN Append(e.bytes, BitOr(QOI_OP_RUN, e.run - 1))
                      ELSE e.bytes
              index_pos == QOI_COLOR_HASH(px)
          IN IF e.index[index_pos] = px
             THEN [e EXCEPT !.i = e.i + 1, !.run = 0, !.prev = px,
                            !.bytes = Append(out1, BitOr(QOI_OP_INDEX, index_pos))]
             ELSE [e EXCEPT !.i = e.i + 1, !.run = 0, !.prev = px,
                            !.index = [e.index EXCEPT ![index_pos] = px],
                            !.bytes = out1 \o EncPixel(px, e.prev)]

\* the end marker: 7 zero bytes and 0x01
EncFinish(e) == [e EXCEPT !.bytes = e.bytes \o <<0, 0, 0, 0, 0, 0, 0, 1>>]

\* n turns of the pixel loop of enc(), the first half before the second
RECURSIVE EncSteps(_, _, _)
EncSteps(e, pixels, n) ==
  IF n = 0 THEN e
  ELSE IF n = 1 THEN EncStep(e, pixels)
  ELSE LET m == EncSteps(e, pixels, n \div 2)
       IN IF m.i > 0 THEN EncSteps(m, pixels, n - n \div 2) ELSE m

\* enc() as a whole: the state it leaves for the pixels of a width x height image
EncAll(pixels, w, h) == EncFinish(EncSteps(EncBegin(w, h), pixels, Len(pixels)))

\* d[o] << 24 | d[o+1] << 16 | d[o+2] << 8 | d[o+3], a signed 32-bit value in JS
ReadBE32(d, o) ==
  LET b0 == ByteAt(d, o)
      top == IF b0 >= 128 THEN b0 - 256 ELSE b0
  IN top * 16777216
       + BitOr(Shl(ByteAt(d, o + 1), 16), BitOr(Shl(ByteAt(d, o + 2), 8), ByteAt(d, o + 3)))

\* a faulty QOI_OP_DIFF branch: the bias of the green difference taken as 1
DecDiffBias1(px, lo) ==
  [px EXCEPT !.r = U8(px.r + BitAnd(Shr(lo, 4), 3) - 2),
             !.g = U8(px.g + BitAnd(Shr(lo, 2), 3) - 1),
             !.b = U8(px.b + BitAnd(lo, 3) - 2)]

\* QOI_OP_DIFF branch of dec()
DecDiff(px, lo) ==
  [px EXCEPT !.r = U8(px.r + BitAnd(Shr(lo, 4), 3) - 2),
             !.g = U8(px.g + BitAnd(Shr(lo, 2), 3) - 2),
             !.b = U8(px.b + BitAnd(lo, 3) - 2)]

\* QOI_OP_LUMA branch of dec()
DecLuma(px, lo, b2) ==
  LET vg == lo - 32
  IN [px EXCEPT !.r = U8(px.r + vg - 8 + BitAnd(Shr(b2, 4), 15)),
                !.g = U8(px.g + vg),
                !.b = U8(px.b + vg - 8 + BitAnd(b2, 15))]

\* a faulty run: one copy more than the opcode tells
DecRunCountOneMore(lo, written, pixels) == lo + 2

\* number of pixels the do-while of the QOI_OP_RUN branch writes
DecRunCount(lo, written, pixels) ==
  IF written + 1 >= pixels THEN 1 ELSE Min(lo + 1, pixels - written)

DST_P == 1024

\* the size of a page of the wasm memory
WASM_PAGE == 65536

\* a faulty placement: the encoded bytes are put where the pixels are written
ChunkAtDestination(d) == DST_P

\* QoiDecoder.decode on a new decoder: the memory is made of whole pages for
\* max(ib, dl) + (min(ib, dl) >> 1) + 4096 bytes, and the encoded bytes d are put at
\* chunk_p = (byteLength - dl) & ~0xFF
ChunkP(d) ==
  LET ib == ReadBE32(d, 4) * ReadBE32(d, 8) * 4
      dl == Len(d)
      bytes == Max(ib, dl) + (Min(ib, dl) \div 2) + 4096
      byteLength == ((bytes + WASM_PAGE - 1) \div WASM_PAGE) * WASM_PAGE
  IN (byteLength - dl) - ((byteLength - dl) % 256)

\* QoiDecoder.decode up to the call of dec(), and dec() up to its loop
DecBegin(d) ==
  LET w == ReadBE32(d, 4)
      h == ReadBE32(d, 8)
  IN [rp |-> QOI_HEADER_SIZE, px |-> PxStart, index |-> IndexZero, out |-> << >>,
      width |-> w, height |-> h, pixels |-> w * h, res |-> << >>]

\* one iteration of the opcode loop of dec()
DecStep(dd, bytes) ==
  LET b1 == ByteAt(bytes, dd.rp)
      hi == BitAnd(b1, QOI_MASK_2)
      lo == BitAnd(b1, 63)
      rp1 == dd.rp + 1
  IN IF hi = 0
     THEN [dd EXCEPT !.rp = rp1, !.px = dd.index[lo], !.out = Append(dd.out, dd.index[lo])]
     ELSE IF hi = QOI_OP_RUN /\ b1 < QOI_OP_RGB
     THEN [dd EXCEPT !.rp = rp1,
                     !.index = [dd.index EXCEPT ![QOI_COLOR_HASH(dd.px)] = dd.px],
                     !.out = dd.out \o Rep(dd.px, DecRunCount(lo, Len(dd.out), dd.pixels))]
     ELSE LET px == IF b1 = QOI_OP_RGB
                    THEN [dd.px EXCEPT !.r = ByteAt(bytes, rp1), !.g = ByteAt(bytes, rp1 + 1),
                                       !.b = ByteAt(bytes, rp1 + 2)]
                    ELSE IF b1 = QOI_OP_RGBA
                    THEN Px(ByteAt(bytes, rp1), ByteAt(bytes, rp1 + 1),
                            ByteAt(bytes, rp1 + 2), ByteAt(bytes, rp1 + 3))
                    ELSE IF hi = QOI_OP_DIFF
                    THEN DecDiff(dd.px, lo)
                    ELSE DecLuma(dd.px, lo, ByteAt(bytes, rp1))
              rp2 == IF b1 = QOI_OP_RGB THEN rp1 + 3
                     ELSE IF b1 = QOI_OP_RGBA THEN rp1 + 4
                     ELSE IF hi = QOI_OP_DIFF THEN rp1
                     ELSE rp1 + 1
          IN [dd EXCEPT !.rp = rp2, !.px = px,
                        !.index = [dd.index EXCEPT ![QOI_COLOR_HASH(px)] = px],
                        !.out = Append(dd.out, px)]

\* the loop condition of dec(): rp < bytes + length - 8
DecMore(dd, bytes) == dd.rp < Len(bytes) - QOI_PADDING

\* QoiDecoder.decode's return value: the subarray [DST_P, DST_P + 4 * pixels) of the
\* memory, pixel by pixel; a pixel dec() did not write keeps the memory's old content
DecResult(dd, stale) ==
  [k \in 1..Max(dd.pixels, 0) |-> IF k <= Len(dd.out) THEN dd.out[k] ELSE stale]

(***************************************************************************)
(* QOI round trip driver: QoiEncoder.encode followed by QoiDecoder.decode, *)
(* as in the tests 'palette.blob' and 'testfiles'.                         *)
(***************************************************************************)
MaxPixels == 3

\* pixel values that make every opcode happen: c1 -> c0 is a DIFF, c1 -> c3 a LUMA,
\* c1 -> c2 an RGB, c3 -> c4 an RGBA; c1 and c2 share the hash slot 4; PxZero hits
\* the zeroed index; PxStart equals the initial previous pixel
Colours ==
  { PxStart, PxZero, Px(1, 1, 1, 255), Px(65, 1, 1, 255), Px(10, 12, 9, 255),
    Px(10, 12, 9, 128), Px(255, 255, 255, 255) }

\* old memory content of the decoder's destination region
StalePixels == { PxZero, Px(9, 9, 9, 9) }

ShortBuffers == UNION { [1..n -> Colours] : n \in 0..MaxPixels }

\* runs around the run length limit, and an image wider than 255 pixels
LongBuffers ==
  { Rep(c, n) \o t : c \in { PxStart, Px(1, 1, 1, 255) },
                     n \in { MAX_RUN - 1, MAX_RUN, MAX_RUN + 1, 2 * MAX_RUN, 300 },
                     t \in { << >>, << Px(10, 12, 9, 255) >> } }

Dimensions(n) ==
  IF n = 0 THEN { <<0, 0>>, <<0, 2>> }
  ELSE { <<w, n \div w>> : w \in { x \in 1..n : n % x = 0 /\ (n <= MaxPixels + 1 \/ x \in {1, n}) } }

\* n pixels that are all different and too far from one another for a difference
\* opcode; with low # 255 the alpha changes from pixel to pixel
Gradient(n, low) ==
  [k \in 1..n |-> Px((20 * k) % 256, (k \div 64) % 256, 0, IF k % 2 = 0 THEN 255 ELSE low)]

\* Images whose encoded bytes lie within the destination region when they are decoded:
\* one that is encoded to more bytes than it has (5 bytes a pixel), one that starts
\* with runs and goes on with 4 bytes a pixel and nearly fills the memory
OverlapBuffers ==
  { Gradient(8000, 254), Rep(Px(1, 1, 1, 255), 2000) \o Gradient(8900, 255) }

QoiInputs ==
  UNION { { [buf |-> b, w |-> d[1], h |-> d[2], stale |-> s] :
              d \in Dimensions(Len(b)), s \in StalePixels } :
          b \in ShortBuffers \cup LongBuffers }

\* the images of OverlapBuffers, one row each; they enter encoded
QoiOverlapInputs ==
  { [buf |-> b, w |-> Len(b), h |-> 1, stale |-> PxZero] : b \in OverlapBuffers }

\* no pixel buffer at hand
QoiIdleInput == [buf |-> << >>, w |-> 0, h |-> 0, stale |-> PxZero]

\* before enc() / dec() run there is no codec state
QoiIdleEnc == [i |-> 0, prev |-> PxStart, run |-> 0, index |-> << >>, bytes |-> << >>]

QoiIdleDec ==
  [rp |-> 0, px |-> PxStart, index |-> << >>, out |-> << >>,
   width |-> 0, height |-> 0, pixels |-> 0, res |-> << >>]

\* QoiEncoder.encode: the call of enc()
QoiEncodeBegin ==
  /\ qpc = "start"
  /\ qenc' = EncBegin(qin.w, qin.h)
  /\ qpc' = "enc"
  /\ UNCHANGED <<qin, qdec>>
  /\ UNCHANGED <<b64Vars, hpVars, stVars, iipVars, addonVars, wkVars, jpVars>>

QoiEncodePixel ==
  /\ qpc = "enc"
  /\ qenc.i <= Len(qin.buf)
  /\ qenc' = EncStep(qenc, qin.buf)
  /\ UNCHANGED <<qpc, qin, qdec>>
  /\ UNCHANGED <<b64Vars, hpVars, stVars, iipVars, addonVars, wkVars, jpVars>>

QoiEncodeEnd ==
  /\ qpc = "enc"
  /\ qenc.i > Len(qin.buf)
  /\ qenc' = EncFinish(qenc)
  /\ qpc' = "encoded"
  /\ UNCHANGED <<qin, qdec>>
  /\ UNCHANGED <<b64Vars, hpVars, stVars, iipVars, addonVars, wkVars, jpVars>>

\* The encoded image is corrupted before it reaches the decoder: the header announces
\* fewer pixels than the opcodes describe.  The decode of a corrupted image runs through
\* "cdec" to "cdone".
QoiCorrupt ==
  /\ qpc = "encoded"
  /\ Len(qin.buf) \in 1..MaxPixels
  /\ \E d \in {<<0, 0>>, <<1, 1>>, <<1, 2>>} :
       /\ d[1] * d[2] < Len(qin.buf)
       /\ qenc' = [qenc EXCEPT !.bytes = EncHeader(d[1], d[2])
                                           \o SubSeq(qenc.bytes, QOI_HEADER_SIZE + 1, Len(qenc.bytes))]
  /\ qpc' = "corrupt"
  /\ UNCHANGED <<qin, qdec>>
  /\ UNCHANGED <<b64Vars, hpVars, stVars, iipVars, addonVars, wkVars, jpVars>>

\* QoiDecoder.decode(encoded): header fields, then the call of dec()
QoiDecodeBegin ==
  /\ qpc \in {"encoded", "corrupt"}
  /\ qdec' = DecBegin(qenc.bytes)
  /\ qpc' = IF qpc = "encoded" THEN "dec" ELSE "cdec"
  /\ UNCHANGED <<qin, qenc>>
  /\ UNCHANGED <<b64Vars, hpVars, stVars, iipVars, addonVars, wkVars, jpVars>>

QoiDecodeOp ==
  /\ qpc \in {"dec", "cdec"}
  /\ DecMore(qdec, qenc.bytes)
  /\ qdec' = DecStep(qdec, qenc.bytes)
  /\ UNCHANGED <<qpc, qin, qenc>>
  /\ UNCHANGED <<b64Vars, hpVars, stVars, iipVars, addonVars, wkVars, jpVars>>

QoiDecodeEnd ==
  /\ qpc \in {"dec", "cdec"}
  /\ ~DecMore(qdec, qenc.bytes)
  /\ qdec' = [qdec EXCEPT !.res = DecResult(qdec, qin.stale)]
  /\ qpc' = IF qpc = "dec" THEN "done" ELSE "cdone"
  /\ UNCHANGED <<qin, qenc>>
  /\ UNCHANGED <<b64Vars, hpVars, stVars, iipVars, addonVars, wkVars, jpVars>>

QoiNext ==
  \/ QoiEncodeBegin
  \/ QoiEncodePixel
  \/ QoiEncodeEnd
  \/ QoiCorrupt
  \/ QoiDecodeBegin
  \/ QoiDecodeOp
  \/ QoiDecodeEnd

(***************************************************************************)
(* wasm base64 stream decoder (ChunkInplaceDecoder with dec / end).        *)
(* bd = [inst, wp, sp, dp, esize, bsize, data]: data models the bytes of   *)
(* the wasm memory behind State.data that the decoder can touch.           *)
(***************************************************************************)
PAD == 61

\* the base64 alphabet 'A'..'Z', 'a'..'z', '0'..'9', '+', '/'
MAP ==
  [i \in 0..63 |-> IF i < 26 THEN 65 + i
                   ELSE IF i < 52 THEN 97 + (i - 26)
                   ELSE IF i < 62 THEN 48 + (i - 52)
                   ELSE IF i = 62 THEN 43 ELSE 47]

InAlphabet(c) == \E i \in 0..63 : MAP[i] = c

MapIndex(c) == CHOOSE i \in 0..63 : MAP[i] = c

\* a faulty table: the second symbol's low bits are not moved to the second byte
DNoCarry(k) ==
  LET c == k % 256
      t == k \div 256
  IN IF ~InAlphabet(c) THEN 0
     ELSE LET i == MapIndex(c)
          IN CASE t = 0 -> Shl(i, 2)
               [] t = 1 -> Shr(i, 4)
               [] t = 2 -> BitOr(Shl(Shr(i, 2), 8), Shl(BitAnd(Shl(i, 6), 255), 16))
               [] OTHER -> Shl(i, 16)

\* entry k of the table D (new Uint32Array(1024), then the four loops): entries the
\* loops do not set keep the array's initial 0
D(k) ==
  LET c == k % 256
      t == k \div 256
  IN IF ~InAlphabet(c) THEN 0
     ELSE LET i == MapIndex(c)
          IN CASE t = 0 -> Shl(i, 2)
               [] t = 1 -> BitOr(Shr(i, 4), Shl(BitAnd(Shl(i, 4), 255), 8))
               [] t = 2 -> BitOr(Shl(Shr(i, 2), 8), Shl(BitAnd(Shl(i, 6), 255), 16))
               [] OTHER -> Shl(i, 16)

\* the wasm views D0..D3 of the table copied to P32.D0
D0(c) == D(c)

D1(c) == D(256 + c)

D2(c) == D(512 + c)

D3(c) == D(768 + c)

\* a faulty store: the word lands one group further up, on symbols not yet read
StoreWordAhead(data, p, accu) ==
  [k \in DOMAIN data |->
     IF k = p + 5 THEN U8(accu)
     ELSE IF k = p + 6 THEN U8(Shr(accu, 8))
     ELSE IF k = p + 7 THEN U8(Shr(accu, 16))
     ELSE IF k = p + 8 THEN U8(Shr(accu, 24))
     ELSE data[k]]

\* *((unsigned int *) (data + p)) = accu on little-endian memory
StoreWord(data, p, accu) ==
  [k \in DOMAIN data |->
     IF k = p + 1 THEN U8(accu)
     ELSE IF k = p + 2 THEN U8(Shr(accu, 8))
     ELSE IF k = p + 3 THEN U8(Shr(accu, 16))
     ELSE IF k = p + 4 THEN U8(Shr(accu, 24))
     ELSE data[k]]

\* the while loop of dec(): src, end and dst are offsets into data
RECURSIVE DecLoop(_, _, _, _)
DecLoop(data, src, end, dst) ==
  IF ~(src < end) THEN [fail |-> FALSE, data |-> data, dst |-> dst]
  ELSE LET accu == BitOr(BitOr(D0(data[src + 1]), D1(data[src + 2])),
                         BitOr(D2(data[src + 3]), D3(data[src + 4])))
       IN IF Shr(accu, 24) # 0 THEN [fail |-> TRUE, data |-> data, dst |-> dst]
          ELSE DecLoop(StoreWord(data, dst, accu), src + 4, end, dst + 3)

\* a faulty bound of the loop: the low bits of wp - 1 are not cleared
NspUnmasked(wp) == wp - 1

\* (state->wp - 1) & ~3 for wp >= 1
Nsp(wp) == ((wp - 1) \div 4) * 4

\* the end of dec(): r is what the while loop left; sp and dp are stored unless it failed
DecReturn(s, r) ==
  IF r.fail THEN [ret |-> 1, s |-> [s EXCEPT !.data = r.data]]
  ELSE [ret |-> 0, s |-> [s EXCEPT !.data = r.data, !.sp = Nsp(s.wp), !.dp = r.dst]]

\* wasm dec(): [ret, s] with s the State after the call
WasmDec(s) == DecReturn(s, DecLoop(s.data, s.sp, Nsp(s.wp), s.dp))

\* the symbols a (third) and b (fourth) of the last group that end() decodes: those
\* present (rem) and different from the pad character
Use2(rem, a) == rem > 2 /\ a # PAD

Use3(rem, b) == rem = 4 /\ b # PAD

\* the accumulator of end() for the last group c0 c1 a b
EndAccu(rem, c0, c1, a, b) ==
  BitOr(BitOr(D0(c0), D1(c1)),
        BitOr(IF Use2(rem, a) THEN D2(a) ELSE 0, IF Use3(rem, b) THEN D3(b) ELSE 0))

\* the bytes the last group gives
EndCount(rem, a, b) == 1 + (IF Use2(rem, a) THEN 1 ELSE 0) + (IF Use3(rem, b) THEN 1 ELSE 0)

\* a faulty end(): a single remaining symbol is taken for a final group
EndTailOneSymbol(t, rem) ==
  IF rem < 1 THEN [ret |-> 1, s |-> t]
  ELSE IF Shr(EndAccu(rem, t.data[t.sp + 1], ByteAt(t.data, t.sp + 1),
                      ByteAt(t.data, t.sp + 2), ByteAt(t.data, t.sp + 3)), 24) # 0
  THEN [ret |-> 1, s |-> t]
  ELSE [ret |-> IF t.dp + EndCount(rem, ByteAt(t.data, t.sp + 2), ByteAt(t.data, t.sp + 3))
                   # t.bsize THEN 1 ELSE 0,
        s |-> [t EXCEPT
                 !.data = StoreWord(t.data, t.dp,
                            EndAccu(rem, t.data[t.sp + 1], ByteAt(t.data, t.sp + 1),
                                    ByteAt(t.data, t.sp + 2), ByteAt(t.data, t.sp + 3))),
                 !.dp = t.dp + EndCount(rem, ByteAt(t.data, t.sp + 2),
                                        ByteAt(t.data, t.sp + 3))]]

\* end() behind its call of dec(): t is the State, rem = wp - sp
EndTail(t, rem) ==
  IF rem < 2 THEN [ret |-> 1, s |-> t]
  ELSE IF Shr(EndAccu(rem, t.data[t.sp + 1], t.data[t.sp + 2],
                      ByteAt(t.data, t.sp + 2), ByteAt(t.data, t.sp + 3)), 24) # 0
  THEN [ret |-> 1, s |-> t]
  ELSE [ret |-> IF t.dp + EndCount(rem, ByteAt(t.data, t.sp + 2), ByteAt(t.data, t.sp + 3))
                   # t.bsize THEN 1 ELSE 0,
        s |-> [t EXCEPT
                 !.data = StoreWord(t.data, t.dp,
                            EndAccu(rem, t.data[t.sp + 1], t.data[t.sp + 2],
                                    ByteAt(t.data, t.sp + 2), ByteAt(t.data, t.sp + 3))),
                 !.dp = t.dp + EndCount(rem, ByteAt(t.data, t.sp + 2),
                                        ByteAt(t.data, t.sp + 3))]]

\* end() behind its call of dec(), which returned d
EndAfterDec(d) ==
  IF d.ret # 0 THEN [ret |-> 1, s |-> d.s] ELSE EndTail(d.s, d.s.wp - d.s.sp)

\* wasm end()
WasmEnd(s) ==
  IF s.wp - s.sp > 4 THEN EndAfterDec(WasmDec(s)) ELSE EndTail(s, s.wp - s.sp)

\* put() runs dec() once this many undecoded symbols are buffered ("tandem mode").
\* The source uses 131072 (the parser's maximal chunk size); the model scales the
\* threshold down so that payloads of a few symbols reach it.
TandemSize == 4

\* Math.ceil(size / 3) * 4
ESize(size) == ((size + 2) \div 3) * 4

CeilDiv(a, b) == (a + b - 1) \div b

\* new ChunkInplaceDecoder(keepSize): no wasm instance yet
B64New ==
  [inst |-> FALSE, wp |-> 0, sp |-> 0, dp |-> 0, esize |-> 0, bsize |-> 0, data |-> << >>]

\* ChunkInplaceDecoder.init(size): fresh (zeroed) wasm memory without instance, else
\* the old memory, grown if needed.  Of the bytes behind State.data the first
\* ESize(size) are modelled, which is all the memory is guaranteed to hold.
B64InitOp(s, size) ==
  [inst |-> TRUE, wp |-> 0, sp |-> 0, dp |-> 0, esize |-> ESize(size), bsize |-> size,
   data |-> IF ~s.inst THEN Rep(0, ESize(size))
            ELSE IF Len(s.data) >= ESize(size) THEN s.data
            ELSE s.data \o Rep(0, ESize(size) - Len(s.data))]

\* a faulty copy: the chunk lands at the start of the memory, not at the write pointer
CopyInAtStart(data, wp, chunk) ==
  [k \in DOMAIN data |-> IF k <= Len(chunk) THEN U8(chunk[k]) ELSE data[k]]

\* this._d.set(chunk, wp): a Uint8Array keeps the low 8 bits of every element
CopyIn(data, wp, chunk) ==
  [k \in DOMAIN data |->
     IF k > wp /\ k <= wp + Len(chunk) THEN U8(chunk[k - wp]) ELSE data[k]]

\* ChunkInplaceDecoder.put(data, start, end) with chunk = data.subarray(start, end)
B64PutOp(s, chunk) ==
  IF ~s.inst THEN [ret |-> 1, s |-> s]
  ELSE IF Len(chunk) + s.wp > s.esize THEN [ret |-> 1, s |-> s]
  ELSE LET t == [s EXCEPT !.data = CopyIn(s.data, s.wp, chunk), !.wp = s.wp + Len(chunk)]
       IN IF t.wp - t.sp >= TandemSize THEN WasmDec(t) ELSE [ret |-> 0, s |-> t]

\* ChunkInplaceDecoder.end()
B64EndOp(s) == IF s.inst THEN WasmEnd(s) ELSE [ret |-> 1, s |-> s]

\* ChunkInplaceDecoder.data8
Data8(s) == IF s.inst THEN SubSeq(s.data, 1, s.dp) ELSE << >>

(***************************************************************************)
(* The sender: standard base64 encoding of a byte string, with '=' padding *)
(* or with the padding omitted, and the corruptions of a payload.          *)
(***************************************************************************)
RECURSIVE B64Encode(_, _)
B64Encode(b, pad) ==
  IF Len(b) = 0 THEN << >>
  ELSE LET b1 == b[1]
           b2 == IF Len(b) > 1 THEN b[2] ELSE 0
           b3 == IF Len(b) > 2 THEN b[3] ELSE 0
           s1 == MAP[b1 \div 4]
           s2 == MAP[(b1 % 4) * 16 + b2 \div 16]
           s3 == MAP[(b2 % 16) * 4 + b3 \div 64]
           s4 == MAP[b3 % 64]
       IN IF Len(b) = 1 THEN <<s1, s2>> \o (IF pad THEN <<PAD, PAD>> ELSE << >>)
          ELSE IF Len(b) = 2 THEN <<s1, s2, s3>> \o (IF pad THEN <<PAD>> ELSE << >>)
          ELSE <<s1, s2, s3, s4>> \o B64Encode(SubSeq(b, 4, Len(b)), pad)

\* p with the code unit c inserted after its first i symbols
InsertAt(p, i, c) == SubSeq(p, 1, i) \o <<c>> \o SubSeq(p, i + 1, Len(p))

\* p with its symbol i replaced by c
ReplaceAt(p, i, c) == [p EXCEPT ![i] = c]

(***************************************************************************)
(* base64 driver: init(size), put of the payload in chunks, end().         *)
(***************************************************************************)
MaxBytes == 4

ByteVals == { 0, 255 }

\* newline, space and the pad character: bytes outside the 64-symbol alphabet
BadBytes == { 10, 32, PAD }

ByteStrings == UNION { [1..n -> ByteVals] : n \in 1..MaxBytes }

B64In(p, size, orig, kind, pos, sym) ==
  [payload |-> p, size |-> size, orig |-> orig, kind |-> kind, pos |-> pos, sym |-> sym]

B64Valid ==
  { B64In(B64Encode(b, pad), Len(b), b, IF pad THEN "padded" ELSE "unpadded", 0, 0) :
      b \in ByteStrings, pad \in BOOLEAN }

B64Inserted ==
  UNION { { B64In(InsertAt(v.payload, i, c), v.size, v.orig, "insert", i, c) :
              i \in 0..Len(v.payload), c \in BadBytes } : v \in B64Valid }

B64Replaced ==
  UNION { { B64In(ReplaceAt(v.payload, i, c), v.size, v.orig, "replace", i, c) :
              i \in { j \in 1..Len(v.payload) : v.payload[j] # PAD }, c \in BadBytes } :
          v \in B64Valid }

B64WrongSize ==
  UNION { { B64In(v.payload, n, v.orig, "wrongsize", 0, 0) :
              n \in { v.size + 1, v.size - 1 } \ { 0 } } : v \in B64Valid }

\* the first n symbols of a padded payload: the transmission broke off
B64Truncated ==
  UNION { { B64In(SubSeq(v.payload, 1, n), v.size, v.orig, "truncate", n, 0) :
              n \in 1..(Len(v.payload) - 1) } :
          v \in { w \in B64Valid : w.kind = "padded" } }

B64Inputs ==
  B64Valid \cup B64Inserted \cup B64Replaced \cup B64WrongSize \cup B64Truncated
    \cup { B64In(<< >>, 1, << >>, "empty", 0, 0) }

\* nothing delivered yet
NoParts == [puts |-> 0, empty |-> FALSE]

\* no payload at hand
B64IdleInput == B64In(<< >>, 0, << >>, "idle", 0, 0)

B64Init ==
  /\ bpc = "new"
  /\ bd' = B64InitOp(bd, bin.size)
  /\ bpc' = "open"
  /\ UNCHANGED <<bin, bcur, bret, bparts>>
  /\ UNCHANGED <<qoiVars, hpVars, stVars, iipVars, addonVars, wkVars, jpVars>>

\* one put call with the next n symbols of the payload (n = 0: an empty chunk)
B64Put ==
  /\ bpc = "open"
  /\ \E n \in 0..(Len(bin.payload) - bcur) :
       LET r == B64PutOp(bd, SubSeq(bin.payload, bcur + 1, bcur + n))
       IN /\ bd' = r.s
          /\ bret' = r.ret
          /\ bcur' = bcur + n
          /\ bpc' = IF r.ret # 0 THEN "failed" ELSE "open"
          /\ bparts' = IF n = 0 THEN [bparts EXCEPT !.empty = TRUE]
                        ELSE [bparts EXCEPT !.puts = Min(bparts.puts + 1, 2)]
  /\ UNCHANGED bin
  /\ UNCHANGED <<qoiVars, hpVars, stVars, iipVars, addonVars, wkVars, jpVars>>

B64End ==
  /\ bpc = "open"
  /\ bcur = Len(bin.payload)
  /\ LET r == B64EndOp(bd)
     IN /\ bd' = r.s
        /\ bret' = r.ret
  /\ bpc' = "ended"
  /\ UNCHANGED <<bin, bcur, bparts>>
  /\ UNCHANGED <<qoiVars, hpVars, stVars, iipVars, addonVars, wkVars, jpVars>>

\* a further put call on a decoder whose put has failed: the caller sends an empty
\* chunk, or as many symbols from the start of the payload as the buffer still takes
B64PutAgain ==
  /\ bpc = "failed"
  /\ \E n \in {0, Min(bd.esize - bd.wp, Len(bin.payload))} :
       LET r == B64PutOp(bd, SubSeq(bin.payload, 1, n))
       IN /\ bd' = r.s
          /\ bret' = r.ret
  /\ bpc' = "again"
  /\ UNCHANGED <<bin, bcur, bparts>>
  /\ UNCHANGED <<qoiVars, hpVars, stVars, iipVars, addonVars, wkVars, jpVars>>

\* end() on a decoder whose put has failed
B64EndAgain ==
  /\ bpc \in {"failed", "again"}
  /\ LET r == B64EndOp(bd)
     IN /\ bd' = r.s
        /\ bret' = r.ret
  /\ bpc' = "reended"
  /\ UNCHANGED <<bin, bcur, bparts>>
  /\ UNCHANGED <<qoiVars, hpVars, stVars, iipVars, addonVars, wkVars, jpVars>>

B64Next ==
  \/ B64Init
  \/ B64Put
  \/ B64End
  \/ B64PutAgain
  \/ B64EndAgain

\* the outcome of delivering the whole payload with a single put call
OneShot(in) ==
  LET p == B64PutOp(B64InitOp(B64New, in.size), in.payload)
      e == B64EndOp(p.s)
  IN IF p.ret # 0 THEN [ok |-> FALSE, data |-> << >>]
     ELSE [ok |-> e.ret = 0, data |-> Data8(e.s)]

(***************************************************************************)
(* IIP header parser (HeaderParser).  Text is a sequence of code units.    *)
(* hp = [state, buffer, position, key, fields]; a field value is           *)
(* [t, v] with t one of "null", "int" (v = <<n>>), "str" (v = the string)  *)
(* and "raw" (v = the undecoded slice of the buffer).                      *)
(***************************************************************************)
\* 'F', 'i', 'l', 'e'
FILE_MARKER == <<70, 105, 108, 101>>

\* The field buffer holds MAX_FIELDCHARS code units.  The source uses 1024; the model
\* scales the buffer down (it still holds the longest key, preserveAspectRatio).
MAX_FIELDCHARS == 20

HS_START == 0
HS_ABORT == 1
HS_KEY == 2
HS_VALUE == 3
HS_END == 4

\* the guard at the entry of parse(): state === START && pos > 6
START_LIMIT == 6

Val(t, v) == [t |-> t, v |-> v]

NullVal == Val("null", << >>)

IsDigit(c) == c >= 48 /\ c <= 57

\* toStr: String.fromCharCode keeps the low 16 bits of every element
toStr(data) == [i \in 1..Len(data) |-> data[i] % 65536]

RECURSIVE DigitsValue(_, _)
DigitsValue(data, n) ==
  IF n = 0 THEN 0 ELSE DigitsValue(data, n - 1) * 10 + (data[n] - 48)

\* a faulty toInt: the last digit is not taken in
toIntShort(data) ==
  IF \E i \in 1..Len(data) : ~IsDigit(data[i]) THEN [ok |-> FALSE, val |-> NullVal]
  ELSE [ok |-> TRUE, val |-> Val("int", << DigitsValue(data, Max(Len(data) - 1, 0)) >>)]

\* toInt: [ok, val]; ok = FALSE models the thrown Error('illegal char')
toInt(data) ==
  IF \E i \in 1..Len(data) : ~IsDigit(data[i]) THEN [ok |-> FALSE, val |-> NullVal]
  ELSE [ok |-> TRUE, val |-> Val("int", << DigitsValue(data, Len(data)) >>)]

\* v.match(/^((auto)|(\d+?((px)|(%)){0,1}))$/)
MatchesSize(v) ==
  \/ v = <<97, 117, 116, 111>>
  \/ \E n \in 1..Len(v) :
       /\ \A i \in 1..n : IsDigit(v[i])
       /\ \/ n = Len(v)
          \/ SubSeq(v, n + 1, Len(v)) = <<112, 120>>
          \/ SubSeq(v, n + 1, Len(v)) = <<37>>

\* toSize
toSize(data) ==
  IF MatchesSize(toStr(data)) THEN [ok |-> TRUE, val |-> Val("str", toStr(data))]
  ELSE [ok |-> FALSE, val |-> NullVal]

IsSpace(c) == c \in {9, 10, 12, 13, 32}

\* the 6-bit groups of a padding-free base64 text as bytes, leftover bits dropped
RECURSIVE SextetsToBytes(_)
SextetsToBytes(x) ==
  IF Len(x) < 2 THEN << >>
  ELSE LET a == MapIndex(x[1])
           b == MapIndex(x[2])
           c == IF Len(x) > 2 THEN MapIndex(x[3]) ELSE 0
           d == IF Len(x) > 3 THEN MapIndex(x[4]) ELSE 0
           o1 == a * 4 + b \div 16
           o2 == (b % 16) * 16 + c \div 4
           o3 == (c % 4) * 64 + d
       IN IF Len(x) = 2 THEN <<o1>>
          ELSE IF Len(x) = 3 THEN <<o1, o2>>
          ELSE <<o1, o2, o3>> \o SextetsToBytes(SubSeq(x, 5, Len(x)))

\* atob (forgiving-base64 decode): [ok, bytes]; ok = FALSE models the thrown exception
Atob(str) ==
  LET x == SelectSeq(str, LAMBDA c : ~IsSpace(c))
      n == Len(x)
      y == IF n % 4 = 0 /\ n >= 2 /\ x[n] = PAD /\ x[n - 1] = PAD THEN SubSeq(x, 1, n - 2)
           ELSE IF n % 4 = 0 /\ n >= 1 /\ x[n] = PAD THEN SubSeq(x, 1, n - 1)
           ELSE x
  IN IF Len(y) % 4 = 1 \/ \E i \in 1..Len(y) : ~InAlphabet(y[i])
     THEN [ok |-> FALSE, bytes |-> << >>]
     ELSE [ok |-> TRUE, bytes |-> SextetsToBytes(y)]

\* new TextDecoder().decode(b) for bytes that are ASCII or start no UTF-8 sequence
Utf8Decode(b) == [i \in 1..Len(b) |-> IF b[i] < 128 THEN b[i] ELSE 65533]

\* toName
toName(data) ==
  LET r == Atob(toStr(data))
  IN IF r.ok THEN [ok |-> TRUE, val |-> Val("str", Utf8Decode(r.bytes))]
     ELSE [ok |-> FALSE, val |-> NullVal]

\* the keys of DECODERS
kInline == <<105, 110, 108, 105, 110, 101>>
kSize == <<115, 105, 122, 101>>
kName == <<110, 97, 109, 101>>
kWidth == <<119, 105, 100, 116, 104>>
kHeight == <<104, 101, 105, 103, 104, 116>>
kPreserveAspectRatio ==
  <<112, 114, 101, 115, 101, 114, 118, 101, 65, 115, 112, 101, 99, 116, 82, 97, 116, 105, 111>>

\* DECODERS[key] ? DECODERS[key](v) : v
Decode(key, v) ==
  IF key \in {kInline, kSize, kPreserveAspectRatio} THEN toInt(v)
  ELSE IF key = kName THEN toName(v)
  ELSE IF key \in {kWidth, kHeight} THEN toSize(v)
  ELSE [ok |-> TRUE, val |-> Val("raw", v)]

HPNew ==
  [state |-> HS_START,
   buffer |-> [i \in 1..MAX_FIELDCHARS |-> 0],
   position |-> 0,
   key |-> << >>,
   fields |-> [k \in {} |-> NullVal]]

\* reset()
HPReset(h) == HPNew

SetField(fields, k, val) ==
  [x \in (DOMAIN fields) \cup {k} |-> IF x = k THEN val ELSE fields[x]]

\* _storeKey(pos): [ok, h]
StoreKey(h, pos) ==
  LET k == toStr(SubSeq(h.buffer, 1, pos))
  IN IF k # << >>
     THEN [ok |-> TRUE, h |-> [h EXCEPT !.key = k, !.fields = SetField(h.fields, k, NullVal)]]
     ELSE [ok |-> FALSE, h |-> h]

\* _storeValue(pos): [ok, h]
StoreValue(h, pos) ==
  IF h.key # << >>
  THEN LET r == Decode(h.key, SubSeq(h.buffer, 1, pos))
       IN IF r.ok
          THEN [ok |-> TRUE, h |-> [h EXCEPT !.fields = SetField(h.fields, h.key, r.val)]]
          ELSE [ok |-> FALSE, h |-> h]
  ELSE [ok |-> FALSE, h |-> h]

\* The locals of parse(): the object h, the locals state and pos, and, once the call has
\* returned (done), the value it returned.
Running(h) == [h |-> h, state |-> h.state, pos |-> h.position, done |-> FALSE, ret |-> -2]

\* return this._a()
Abort(ps) == [ps EXCEPT !.h.state = HS_ABORT, !.done = TRUE, !.ret = -1]

\* a faulty bound check: a character that does not fit is dropped, the parse goes on
PushCharTruncating(ps, c) ==
  IF ps.pos >= MAX_FIELDCHARS THEN ps
  ELSE [ps EXCEPT !.h.buffer[ps.pos + 1] = c, !.pos = ps.pos + 1]

\* buffer[pos++] = c, after the bound check
PushChar(ps, c) ==
  IF ps.pos >= MAX_FIELDCHARS THEN Abort(ps)
  ELSE [ps EXCEPT !.h.buffer[ps.pos + 1] = c, !.pos = ps.pos + 1]

\* one iteration of the loop of parse(), for the code unit c at index i
ParseChar(ps, c, i) ==
  IF ps.done THEN ps
  ELSE IF c = 59 THEN
    LET r == StoreValue(ps.h, ps.pos)
    IN IF ~r.ok THEN Abort(ps)
       ELSE [ps EXCEPT !.h = r.h, !.state = HS_KEY, !.pos = 0]
  ELSE IF c = 61 THEN
    IF ps.state = HS_START THEN
      IF \E k \in 1..Len(FILE_MARKER) : ps.h.buffer[k] # FILE_MARKER[k] THEN Abort(ps)
      ELSE [ps EXCEPT !.state = HS_KEY, !.pos = 0]
    ELSE IF ps.state = HS_KEY THEN
      LET r == StoreKey(ps.h, ps.pos)
      IN IF ~r.ok THEN Abort(ps)
         ELSE [ps EXCEPT !.h = r.h, !.state = HS_VALUE, !.pos = 0]
    ELSE IF ps.state = HS_VALUE THEN PushChar(ps, c)
    ELSE ps
  ELSE IF c = 58 THEN
    LET r == IF ps.state = HS_VALUE THEN StoreValue(ps.h, ps.pos) ELSE [ok |-> TRUE, h |-> ps.h]
    IN IF ~r.ok THEN Abort(ps)
       ELSE [ps EXCEPT !.h = [r.h EXCEPT !.state = HS_END], !.done = TRUE, !.ret = i + 1]
  ELSE PushChar(ps, c)

\* the loop of parse() over data[lo .. hi-1] (0-based indexes), folded by halves
RECURSIVE ParseRange(_, _, _, _)
ParseRange(ps, data, lo, hi) ==
  IF lo >= hi \/ ps.done THEN ps
  ELSE IF hi = lo + 1 THEN ParseChar(ps, data[lo + 1], lo)
  ELSE LET mid == (lo + hi) \div 2
       IN ParseRange(ParseRange(ps, data, lo, mid), data, mid, hi)

\* a faulty parse(): a parser that has reached END or ABORT scans on
ParseUnguarded(h, data, start, end) ==
  IF h.state = HS_START /\ h.position > START_LIMIT THEN [ret |-> -1, h |-> h]
  ELSE LET ps == ParseRange(Running(h), data, start, end)
       IN IF ps.done THEN [ret |-> ps.ret, h |-> ps.h]
          ELSE [ret |-> -2, h |-> [ps.h EXCEPT !.state = ps.state, !.position = ps.pos]]

\* parse(data, start, end): [ret, h]
Parse(h, data, start, end) ==
  IF h.state = HS_ABORT \/ h.state = HS_END THEN [ret |-> -1, h |-> h]
  ELSE IF h.state = HS_START /\ h.position > START_LIMIT THEN [ret |-> -1, h |-> h]
  ELSE LET ps == ParseRange(Running(h), data, start, end)
       IN IF ps.done THEN [ret |-> ps.ret, h |-> ps.h]
          ELSE [ret |-> -2, h |-> [ps.h EXCEPT !.state = ps.state, !.position = ps.pos]]

(***************************************************************************)
(* Header parser driver: a header text is handed to parse() in fragments.  *)
(***************************************************************************)
\* A segment of a header as it is written, key [= value], with the value the field is
\* to hold once it is stored (BadVal: the value is not legal for the key).
Field(key, val, eq, want) == [key |-> key, val |-> val, eq |-> eq, want |-> want]

BadVal == Val("bad", << >>)

\* size=4
fSize4 == Field(kSize, <<52>>, TRUE, Val("int", <<4>>))

\* size=100
fSize100 == Field(kSize, <<49, 48, 48>>, TRUE, Val("int", <<100>>))

\* size=4x
fSizeBad == Field(kSize, <<52, 120>>, TRUE, BadVal)

\* size=
fSizeEmpty == Field(kSize, << >>, TRUE, Val("int", <<0>>))

\* inline=1
fInline1 == Field(kInline, <<49>>, TRUE, Val("int", <<1>>))

\* width=auto
fWidthAuto == Field(kWidth, <<97, 117, 116, 111>>, TRUE, Val("str", <<97, 117, 116, 111>>))

\* width=5px
fWidthPx == Field(kWidth, <<53, 112, 120>>, TRUE, Val("str", <<53, 112, 120>>))

\* width=50%
fWidthPct == Field(kWidth, <<53, 48, 37>>, TRUE, Val("str", <<53, 48, 37>>))

\* width=px
fWidthBad == Field(kWidth, <<112, 120>>, TRUE, BadVal)

\* height=auto
fHeightAuto == Field(kHeight, <<97, 117, 116, 111>>, TRUE, Val("str", <<97, 117, 116, 111>>))

\* name=YQ== (base64 of "a")
fNameA == Field(kName, <<89, 81, 61, 61>>, TRUE, Val("str", <<97>>))

\* name=YWI (unpadded base64 of "ab")
fNameAb == Field(kName, <<89, 87, 73>>, TRUE, Val("str", <<97, 98>>))

\* name=Y
fNameBad == Field(kName, <<89>>, TRUE, BadVal)

\* preserveAspectRatio=0
fAspect0 == Field(kPreserveAspectRatio, <<48>>, TRUE, Val("int", <<0>>))

\* u=v (a key without decoder)
fUnknown == Field(<<117>>, <<118>>, TRUE, Val("raw", <<118>>))

\* u=v=w
fEqInValue == Field(<<117>>, <<118, 61, 119>>, TRUE, Val("raw", <<118, 61, 119>>))

\* 99 (a segment without =)
fBare == Field(<<57, 57>>, << >>, FALSE, BadVal)

\* an empty segment
fEmpty == Field(<< >>, << >>, FALSE, BadVal)

\* =v (an empty key)
fNoKey == Field(<< >>, <<118>>, TRUE, BadVal)

\* a key of exactly MAX_FIELDCHARS characters
fKeyMax == Field(Rep(107, MAX_FIELDCHARS), <<118>>, TRUE, Val("raw", <<118>>))

\* a key of MAX_FIELDCHARS + 1 characters
fKeyOver == Field(Rep(107, MAX_FIELDCHARS + 1), <<118>>, TRUE, BadVal)

\* a value of exactly MAX_FIELDCHARS characters
fValMax == Field(<<117>>, Rep(118, MAX_FIELDCHARS), TRUE, Val("raw", Rep(118, MAX_FIELDCHARS)))

\* a value of MAX_FIELDCHARS + 1 characters
fValOver == Field(<<117>>, Rep(118, MAX_FIELDCHARS + 1), TRUE, BadVal)

AllFields ==
  {fSize4, fSize100, fSizeBad, fSizeEmpty, fInline1, fWidthAuto,
   fWidthPx, fWidthPct, fWidthBad, fHeightAuto, fNameA, fNameAb,
   fNameBad, fAspect0, fUnknown, fEqInValue, fBare, fEmpty,
   fNoKey, fKeyMax, fKeyOver, fValMax, fValOver}

\* the fields that are combined into headers of two fields
PairFields == {fSize4, fSize100, fSizeBad, fInline1, fWidthAuto, fNameA, fEqInValue, fBare, fValOver}

\* File=  Fil=  Xile=  Filexyz=  (nothing)  File  =  and MAX_FIELDCHARS + 1 characters
pFile == <<70, 105, 108, 101, 61>>
pShort == <<70, 105, 108, 61>>
pOther == <<88, 105, 108, 101, 61>>
pLong == <<70, 105, 108, 101, 120, 121, 122, 61>>
pNone == << >>
pNoEq == <<70, 105, 108, 101>>
pEq == <<61>>
pOver == Rep(70, MAX_FIELDCHARS + 1)

\* the payload that follows the header: QQ==
Payload == <<81, 81, 61, 61>>

\* the text of a segment
FieldText(f) == IF f.eq THEN f.key \o <<61>> \o f.val ELSE f.key

\* the segments joined with ';'
RECURSIVE JoinFields(_)
JoinFields(segs) ==
  IF segs = << >> THEN << >>
  ELSE IF Len(segs) = 1 THEN FieldText(segs[1])
  ELSE FieldText(segs[1]) \o <<59>> \o JoinFields(Tail(segs))

\* A header: what precedes the first field, the fields, and whether ':' and the payload
\* follow.  colon is the 0-based index of that ':' in text (-1 without one).
Header(prefix, segs, term) ==
  LET head == prefix \o JoinFields(segs)
  IN [prefix |-> prefix, segs |-> segs, term |-> term,
      text |-> IF term THEN head \o <<58>> \o Payload ELSE head,
      colon |-> IF term THEN Len(head) ELSE -1]

FieldLists ==
  {<< >>} \cup {<<f>> : f \in AllFields} \cup {<<f, g>> : f \in PairFields, g \in PairFields}

\* the example header of the protocol: name, size, width, height, inline
ExampleFields == <<fNameA, fSize100, fWidthAuto, fHeightAuto, fInline1>>

HPInputs ==
  {Header(pFile, l, TRUE) : l \in FieldLists \cup {ExampleFields}}
  \cup {Header(pFile, <<f, g, fInline1>>, TRUE) : f \in {fSize4, fUnknown}, g \in {fBare, fEmpty}}
  \cup {Header(pFile, l, FALSE) : l \in {<< >>} \cup {<<f>> : f \in AllFields}}
  \cup {Header(p, l, TRUE) : p \in {pShort, pOther, pLong, pNone, pNoEq, pEq, pOver},
                             l \in {<< >>, <<fSize4>>, <<fInline1, fEqInValue>>}}

\* no header at hand
HPIdleInput == [prefix |-> << >>, segs |-> << >>, term |-> FALSE, text |-> << >>, colon |-> -1]

\* IIPHandler.start(): this._hp.reset()
HPStart ==
  /\ hpc = "new"
  /\ hp' = HPReset(hp)
  /\ hpc' = "parsing"
  /\ UNCHANGED <<hin, hcur, hret>>
  /\ UNCHANGED <<qoiVars, b64Vars, stVars, iipVars, addonVars, wkVars, jpVars>>

\* one parse call with the next n code units of the text (n = 0: an empty fragment);
\* the caller stops feeding the parser once a call returns something else than -2
HPParse ==
  /\ hpc = "parsing"
  /\ \E n \in 0..(Len(hin.text) - hcur) :
       LET r == Parse(hp, hin.text, hcur, hcur + n)
       IN /\ hp' = r.h
          /\ hret' = r.ret
          /\ hcur' = hcur + n
          /\ hpc' = IF r.ret = -2 THEN "parsing" ELSE "decided"
  /\ UNCHANGED hin
  /\ UNCHANGED <<qoiVars, b64Vars, stVars, iipVars, addonVars, wkVars, jpVars>>

\* a parse call on a parser that has given its verdict: with the text from its beginning
\* or from where the caller stopped, either empty, one code unit or all that is left
HPParseAgain ==
  /\ hpc \in {"decided", "again"}
  /\ \E lo \in {0, hcur} : \E n \in {0, Min(1, Len(hin.text) - lo), Len(hin.text) - lo} :
       /\ hp' = Parse(hp, hin.text, lo, lo + n).h
       /\ hret' = Parse(hp, hin.text, lo, lo + n).ret
  /\ hpc' = "again"
  /\ UNCHANGED <<hin, hcur>>
  /\ UNCHANGED <<qoiVars, b64Vars, stVars, iipVars, addonVars, wkVars, jpVars>>

HPNext ==
  \/ HPStart
  \/ HPParse
  \/ HPParseAgain

\* the outcome of handing the whole text to a single parse call
ParseWhole(in) == Parse(HPNew, in.text, 0, Len(in.text))

(***************************************************************************)
(* Image storage (ImageStorage).  Its source file is not among the files   *)
(* of the repository at hand; the model follows the design description of  *)
(* the storage: an insertion-ordered collection of images, a running byte  *)
(* total, a capacity, and the cell references of both screen buffers.      *)
(* st   = [images, total, capacity, nextId, cellSize, placeholder]         *)
(* grid = [normal, alt, active]; a cell holds an image id, 0 (no           *)
(*        reference) or -1 (placeholder).                                  *)
(***************************************************************************)
\* cells per screen buffer
NCells == 2

\* images inserted in one behaviour
MaxImages == 3

\* width and height of the images inserted, in pixels
ImageDims == {<<1, 1>>, <<2, 1>>, <<2, 2>>}

BYTES_PER_PIXEL == 4

NO_REF == 0

PLACEHOLDER == -1

Capacities == {2 * BYTES_PER_PIXEL, 4 * BYTES_PER_PIXEL}

CellSizes == {1, 2}

Buffers == {"normal", "alt"}

\* an Image: byte size width x height x 4, the cell size it was inserted at (gen0), and
\* the bytes (tile) and cell size (gen) of the tile derived from it
NewImage(id, w, h, cs) ==
  [id |-> id, size |-> w * h * BYTES_PER_PIXEL, gen0 |-> cs, gen |-> cs, tile |-> 0]

ImageBytes(img) == img.size + img.tile

RECURSIVE SumBytes(_)
SumBytes(images) ==
  IF images = << >> THEN 0 ELSE ImageBytes(Head(images)) + SumBytes(Tail(images))

Ids(images) == {images[i].id : i \in 1..Len(images)}

\* getUsage()
GetUsage(s) == s.total

\* getCapacity()
GetCapacity(s) == s.capacity

\* the live reference count of an image: the cells of either buffer that point at it
RefsIn(g, buf, id) == {c \in 1..NCells : g[buf][c] = id}

RefCount(g, id) == Cardinality(RefsIn(g, "normal", id)) + Cardinality(RefsIn(g, "alt", id))

\* removal of the images ids: out of the collection, out of the running total, and
\* every cell reference pointing at them replaced by mark
RemoveImages(s, g, ids, mark) ==
  LET gone == SelectSeq(s.images, LAMBDA img : img.id \in ids)
      wipe(row) == [c \in 1..NCells |-> IF row[c] \in ids /\ row[c] > 0 THEN mark ELSE row[c]]
  IN [s |-> [s EXCEPT !.images = SelectSeq(s.images, LAMBDA img : img.id \notin ids),
                      !.total = s.total - SumBytes(gone)],
      g |-> [g EXCEPT !.normal = wipe(g.normal), !.alt = wipe(g.alt)]]

\* a faulty removal: images without reference stay
DropNothing(s, g) == [s |-> s, g |-> g]

\* reference-driven removal: every image no cell points at any more
DropUnreferenced(s, g) ==
  RemoveImages(s, g, {id \in Ids(s.images) : RefCount(g, id) = 0}, NO_REF)

\* a faulty eviction: one image at most is removed
EvictOne(s, g) ==
  IF s.total > s.capacity /\ s.images # << >>
  THEN RemoveImages(s, g, {Head(s.images).id}, IF s.placeholder THEN PLACEHOLDER ELSE NO_REF)
  ELSE [s |-> s, g |-> g]

\* a faulty eviction: the youngest image goes first
RECURSIVE EvictYoungest(_, _)
EvictYoungest(s, g) ==
  IF s.total > s.capacity /\ s.images # << >>
  THEN LET r == RemoveImages(s, g, {s.images[Len(s.images)].id},
                             IF s.placeholder THEN PLACEHOLDER ELSE NO_REF)
       IN EvictYoungest(r.s, r.g)
  ELSE [s |-> s, g |-> g]

\* capacity eviction: oldest images first, until the running total is <= capacity
RECURSIVE Evict(_, _)
Evict(s, g) ==
  IF s.total > s.capacity /\ s.images # << >>
  THEN LET r == RemoveImages(s, g, {Head(s.images).id},
                             IF s.placeholder THEN PLACEHOLDER ELSE NO_REF)
       IN Evict(r.s, r.g)
  ELSE [s |-> s, g |-> g]

\* addImage: a new image with the next sequence number, covering the cells lo..hi of the
\* active buffer from the anchor lo on (the references it overwrites are invalidated),
\* then eviction
AddImage(s, g, w, h, lo, hi) ==
  LET img == NewImage(s.nextId, w, h, s.cellSize)
      s1 == [s EXCEPT !.images = Append(s.images, img),
                      !.total = s.total + img.size,
                      !.nextId = s.nextId + 1]
      g1 == [g EXCEPT ![g.active] =
               [c \in 1..NCells |-> IF c >= lo /\ c <= hi THEN img.id ELSE g[g.active][c]]]
      r == DropUnreferenced(s1, g1)
  IN Evict(r.s, r.g)

\* a faulty limit change: the eviction is left to a later call
SetCapacityLazy(s, g, bytes) == [s |-> [s EXCEPT !.capacity = bytes], g |-> g]

\* setCapacity(bytes)
SetCapacity(s, g, bytes) == Evict([s EXCEPT !.capacity = bytes], g)

\* onCellsOverwritten(range): the cells lo..hi of buffer buf lose their content
OnCellsOverwritten(s, g, buf, lo, hi) ==
  DropUnreferenced(s, [g EXCEPT ![buf] =
    [c \in 1..NCells |-> IF c >= lo /\ c <= hi THEN NO_REF ELSE g[buf][c]]])

\* a faulty wipe: nothing is removed
WipeNothing(s, g) == [s |-> s, g |-> g]

\* wipeAlternate(): every image whose references lie on the alternate buffer only
WipeAlternate(s, g) ==
  RemoveImages(s, g, {id \in Ids(s.images) :
                        RefsIn(g, "alt", id) # {} /\ RefsIn(g, "normal", id) = {}}, NO_REF)

\* the bytes of the tile of img at cell size cs (none at the size it was inserted at)
TileBytes(img, cs) == IF cs = img.gen0 THEN 0 ELSE (img.size * cs * cs) \div (img.gen0 * img.gen0)

RECURSIVE Retile(_, _)
Retile(images, cs) ==
  IF images = << >> THEN << >>
  ELSE LET img == Head(images)
       IN << IF img.gen = cs THEN img
             ELSE [img EXCEPT !.gen = cs, !.tile = TileBytes(img, cs)] >>
          \o Retile(Tail(images), cs)

\* viewportResize(newCellPixelSize)
ViewportResize(s, g, cs) ==
  LET imgs == Retile(s.images, cs)
  IN [s |-> [s EXCEPT !.images = imgs, !.cellSize = cs,
                      !.total = s.total - SumBytes(s.images) + SumBytes(imgs)],
      g |-> g]

StNew(capacity, placeholder) ==
  [images |-> << >>, total |-> 0, capacity |-> capacity, nextId |-> 1,
   cellSize |-> 1, placeholder |-> placeholder]

GridNew == [normal |-> [c \in 1..NCells |-> NO_REF], alt |-> [c \in 1..NCells |-> NO_REF],
            active |-> "normal"]

StAddImage ==
  /\ st.nextId <= MaxImages
  /\ \E d \in ImageDims, lo \in 1..NCells :
       LET r == AddImage(st, grid, d[1], d[2], lo, Min(lo + d[1] - 1, NCells))
       IN /\ st' = r.s
          /\ grid' = r.g
  /\ stlast' = "addImage"
  /\ stbase' = stbase
  /\ UNCHANGED <<qoiVars, b64Vars, hpVars, iipVars, addonVars, wkVars, jpVars>>

StSetCapacity ==
  /\ \E bytes \in Capacities \cup {0} :
       LET r == SetCapacity(st, grid, bytes)
       IN /\ st' = r.s
          /\ grid' = r.g
  /\ stlast' = "setCapacity"
  /\ stbase' = -1
  /\ UNCHANGED <<qoiVars, b64Vars, hpVars, iipVars, addonVars, wkVars, jpVars>>

StCellsOverwritten ==
  /\ \E buf \in Buffers, lo \in 1..NCells :
       \E hi \in lo..NCells :
         LET r == OnCellsOverwritten(st, grid, buf, lo, hi)
         IN /\ st' = r.s
            /\ grid' = r.g
  /\ stlast' = "onCellsOverwritten"
  /\ stbase' = -1
  /\ UNCHANGED <<qoiVars, b64Vars, hpVars, iipVars, addonVars, wkVars, jpVars>>

\* terminal.buffer.onBufferChange: the other buffer becomes active, wipeAlternate() runs
StBufferChange ==
  /\ LET r == WipeAlternate(st, grid)
     IN /\ st' = r.s
        /\ grid' = [r.g EXCEPT !.active = IF grid.active = "normal" THEN "alt" ELSE "normal"]
  /\ stlast' = "wipeAlternate"
  /\ stbase' = IF grid.active = "normal" THEN GetUsage(st') ELSE stbase
  /\ UNCHANGED <<qoiVars, b64Vars, hpVars, iipVars, addonVars, wkVars, jpVars>>

StViewportResize ==
  /\ \E cs \in CellSizes :
       LET r == ViewportResize(st, grid, cs)
       IN /\ st' = r.s
          /\ grid' = r.g
  /\ stlast' = "viewportResize"
  /\ stbase' = -1
  /\ UNCHANGED <<qoiVars, b64Vars, hpVars, iipVars, addonVars, wkVars, jpVars>>

StNext ==
  \/ StAddImage
  \/ StSetCapacity
  \/ StCellsOverwritten
  \/ StBufferChange
  \/ StViewportResize

\* the bytes of the images and tiles in the collection
Usage(s) == SumBytes(s.images)

(***************************************************************************)
(* IIPHandler: the OSC 1337 handler that feeds the header parser and the   *)
(* base64 decoder and hands the decoded image to the storage.              *)
(***************************************************************************)
\* KEEP_DATA, the keepSize of the handler's base64 decoder.  The source uses 4194304;
\* the model scales it down to the memory of a payload of 6 bytes.
KEEP_DATA == 8

\* DEFAULT_OPTIONS.iipSizeLimit, scaled down from 20000000
IipSizeLimit == 50

\* DEFAULT_OPTIONS.pixelLimit, scaled down from 16777216
PixelLimit == 16

\* ChunkInplaceDecoder.release(): memory above keepSize is dropped with the instance,
\* smaller memory is kept and only the pointers are reset
B64ReleaseOp(s) ==
  IF ~s.inst THEN s
  ELSE IF Len(s.data) > KEEP_DATA THEN B64New
  ELSE [s EXCEPT !.wp = 0, !.sp = 0, !.dp = 0]

\* UNSUPPORTED_TYPE
UNSUPPORTED_TYPE == [mime |-> "unsupported", width |-> 0, height |-> 0]

\* a << 24 | b << 16 | c << 8 | d, a signed 32-bit value
Int32BE(a, b, c, d) ==
  (IF a >= 128 THEN a - 256 ELSE a) * 16777216 + b * 65536 + c * 256 + d

\* the loop of jpgSize from the block at index i on: [width, height]
RECURSIVE JpgScan(_, _)
JpgScan(d, i) ==
  IF i >= Len(d) THEN <<0, 0>>
  ELSE IF ByteAt(d, i) # 255 THEN <<0, 0>>
  ELSE IF ByteAt(d, i + 1) \in {192, 194}
       THEN IF i + 8 < Len(d)
            THEN <<ByteAt(d, i + 7) * 256 + ByteAt(d, i + 8),
                   ByteAt(d, i + 5) * 256 + ByteAt(d, i + 6)>>
            ELSE <<0, 0>>
  ELSE IF i + 2 >= Len(d) THEN <<0, 0>>
  ELSE JpgScan(d, i + 2 + ByteAt(d, i + 2) * 256 + ByteAt(d, i + 3))

\* jpgSize(d)
jpgSize(d) == JpgScan(d, 4 + ByteAt(d, 4) * 256 + ByteAt(d, 5))

\* imageType(d)
imageType(d) ==
  IF Len(d) < 24 THEN UNSUPPORTED_TYPE
  ELSE IF /\ SubSeq(d, 1, 8) = <<137, 80, 78, 71, 13, 10, 26, 10>>
          /\ SubSeq(d, 13, 16) = <<73, 72, 68, 82>>
  THEN [mime |-> "image/png",
        width |-> Int32BE(d[17], d[18], d[19], d[20]),
        height |-> Int32BE(d[21], d[22], d[23], d[24])]
  ELSE IF /\ SubSeq(d, 1, 3) = <<255, 216, 255>>
          /\ d[4] \in {224, 225}
          /\ SubSeq(d, 7, 10) \in {<<74, 70, 73, 70>>, <<69, 120, 105, 102>>}
  THEN [mime |-> "image/jpeg", width |-> jpgSize(d)[1], height |-> jpgSize(d)[2]]
  ELSE UNSUPPORTED_TYPE

\* the renderer's dimensions: css cell width and height, css canvas width and height
RendererDimensions == [cw |-> 2, ch |-> 2, width |-> 8, height |-> 6]

\* a field of Object.assign({}, DEFAULT_HEADER, fields)
HeaderField(fields, k, default) == IF k \in DOMAIN fields THEN fields[k] ELSE default

\* Object.assign({}, DEFAULT_HEADER, this._hp.fields), the fields the handler reads
HeaderOf(fields) ==
  [size |-> HeaderField(fields, kSize, Val("int", <<0>>)),
   inline |-> HeaderField(fields, kInline, Val("int", <<0>>)),
   width |-> HeaderField(fields, kWidth, Val("str", <<97, 117, 116, 111>>)),
   height |-> HeaderField(fields, kHeight, Val("str", <<97, 117, 116, 111>>)),
   preserveAspectRatio |-> HeaderField(fields, kPreserveAspectRatio, Val("int", <<1>>))]

\* DEFAULT_HEADER
DEFAULT_HEADER == HeaderOf([k \in {} |-> NullVal])

\* the number held by a header field, 0 for null
NumberOf(val) == IF val.t = "int" THEN val.v[1] ELSE 0

\* a faulty check: the declared size is not compared with the limit
HeaderRejectedNoLimit(header) ==
  \/ NumberOf(header.inline) = 0
  \/ NumberOf(header.size) = 0

\* !this._header.inline || !this._header.size || this._header.size > iipSizeLimit
HeaderRejected(header) ==
  \/ NumberOf(header.inline) = 0
  \/ NumberOf(header.size) = 0
  \/ NumberOf(header.size) > IipSizeLimit

\* a number of _resize: the fraction n / d, kept with d > 0
Frac(n, d) == IF d < 0 THEN [n |-> -n, d |-> -d] ELSE [n |-> n, d |-> d]

\* Math.ceil of a fraction (-0 counts as 0)
CeilFrac(f) == (f.n + f.d - 1) \div f.d

\* parseInt of the digits a size entry begins with
LeadingInt(s) ==
  LET n == CHOOSE k \in 0..Len(s) :
             /\ \A i \in 1..k : IsDigit(s[i])
             /\ (k < Len(s) => ~IsDigit(s[k + 1]))
  IN DigitsValue(s, n)

\* _dim(s, total, cdim)
Dim(s, total, cdim) ==
  IF s = <<97, 117, 116, 111>> THEN Frac(0, 1)
  ELSE IF s[Len(s)] = 37 THEN Frac(LeadingInt(s) * total, 100)
  ELSE IF Len(s) >= 2 /\ SubSeq(s, Len(s) - 1, Len(s)) = <<112, 120>> THEN Frac(LeadingInt(s), 1)
  ELSE Frac(LeadingInt(s) * cdim, 1)

\* _resize(w, h) for w, h # 0, in exact arithmetic: <<width, height>> as fractions
Resize(header, w, h) ==
  LET dims == RendererDimensions
      rw == Dim(header.width.v, dims.width, dims.cw)
      rh == Dim(header.height.v, dims.height, dims.ch)
      wf == Frac(dims.width, w)
      hf == Frac(dims.height - dims.ch, h)
      \* f = Math.min(wf, hf)
      f == IF wf.n * hf.d <= hf.n * wf.d THEN wf ELSE hf
  IN IF rw.n = 0 /\ rh.n = 0
     THEN IF f.n < f.d
          THEN <<Frac(w * f.n, f.d), Frac(h * f.n, f.d)>>
          ELSE <<Frac(w, 1), Frac(h, 1)>>
     ELSE IF rw.n = 0 THEN <<Frac(w * rh.n, h * rh.d), rh>>
     ELSE IF NumberOf(header.preserveAspectRatio) # 0 \/ rh.n = 0
          THEN <<rw, Frac(h * rw.n, w * rw.d)>>
          ELSE <<rw, rh>>

\* the early exit condition chain of end() behind the call of this._dec.end():
\* [cond, metrics, w, h]
Metrics(header, data8) ==
  LET m == imageType(data8)
      ok1 == m.mime # "unsupported" /\ m.width # 0 /\ m.height # 0
               /\ m.width * m.height < PixelLimit
      r == Resize(header, m.width, m.height)
      w == IF ok1 THEN CeilFrac(r[1]) ELSE m.width
      h == IF ok1 THEN CeilFrac(r[2]) ELSE m.height
  IN [cond |-> ok1 /\ w # 0 /\ h # 0 /\ w * h < PixelLimit, metrics |-> m, w |-> w, h |-> h]

\* The calls the handler has made on its base64 decoder: init and put calls since
\* start() (puts counted up to 2), whether release() has run since the last init, and the
\* code units of the ranges handed to put since start(), one after the other (fed).
NoCalls == [inits |-> 0, puts |-> 0, released |-> TRUE, fed |-> << >>]

\* new IIPHandler(...)
IIPNew ==
  [aborted |-> FALSE, hp |-> HPNew, header |-> DEFAULT_HEADER, dec |-> B64New,
   metrics |-> UNSUPPORTED_TYPE, calls |-> NoCalls]

\* a faulty start: the abort flag of the attempt before stays
IIPStartKeepAbort(h) ==
  [h EXCEPT !.header = DEFAULT_HEADER, !.metrics = UNSUPPORTED_TYPE, !.hp = HPReset(h.hp),
            !.calls = [h.calls EXCEPT !.inits = 0, !.puts = 0, !.fed = << >>]]

\* start()
IIPStartOp(h) ==
  [h EXCEPT !.aborted = FALSE, !.header = DEFAULT_HEADER, !.metrics = UNSUPPORTED_TYPE,
            !.hp = HPReset(h.hp),
            !.calls = [h.calls EXCEPT !.inits = 0, !.puts = 0, !.fed = << >>]]

\* this._dec.release()
DecRelease(h) ==
  [h EXCEPT !.dec = B64ReleaseOp(h.dec), !.calls = [h.calls EXCEPT !.released = TRUE]]

\* this._dec.init(this._header.size)
DecInit(h) ==
  [h EXCEPT !.dec = B64InitOp(h.dec, NumberOf(h.header.size)),
            !.calls = [h.calls EXCEPT !.inits = h.calls.inits + 1, !.released = FALSE]]

\* a faulty abort: the decoder is not released
PutFailedKeep(h) == [h EXCEPT !.aborted = TRUE]

\* put(): this._dec.release(); this._aborted = true
PutFailed(h) == [DecRelease(h) EXCEPT !.aborted = TRUE]

\* put(): if (this._dec.put(data, start, end)) { ... }
DecPut(h, data, start, end) ==
  LET r == B64PutOp(h.dec, SubSeq(data, start + 1, end))
      h1 == [h EXCEPT !.dec = r.s,
                      !.calls = [h.calls EXCEPT !.puts = Min(h.calls.puts + 1, 2),
                                                !.fed = h.calls.fed \o SubSeq(data, start + 1, end)]]
  IN IF r.ret # 0 THEN PutFailed(h1) ELSE h1

\* a faulty hand-over: the first code unit behind the ':' is not handed to the decoder
HeaderDoneSkipping(h, data, dataPos, end) ==
  LET h1 == [h EXCEPT !.header = HeaderOf(h.hp.fields)]
  IN IF HeaderRejected(h1.header) THEN [h1 EXCEPT !.aborted = TRUE]
     ELSE DecPut(DecInit(h1), data, Min(dataPos + 1, end), end)

\* put(): the header is complete, dataPos > 0
HeaderDone(h, data, dataPos, end) ==
  LET h1 == [h EXCEPT !.header = HeaderOf(h.hp.fields)]
  IN IF HeaderRejected(h1.header) THEN [h1 EXCEPT !.aborted = TRUE]
     ELSE DecPut(DecInit(h1), data, dataPos, end)

\* put(): the header parser gets the data
HeaderPut(h, p, data, end) ==
  IF p.ret = -1 THEN [h EXCEPT !.hp = p.h, !.aborted = TRUE]
  ELSE IF p.ret > 0 THEN HeaderDone([h EXCEPT !.hp = p.h], data, p.ret, end)
  ELSE [h EXCEPT !.hp = p.h]

\* put(data, start, end)
IIPPutOp(h, data, start, end) ==
  IF h.aborted THEN h
  ELSE IF h.hp.state = HS_END THEN DecPut(h, data, start, end)
  ELSE HeaderPut(h, Parse(h.hp, data, start, end), data, end)

\* what end() returns: true (kind "true", or "stored" behind addImage), or a promise
\* together with the blob it was made for
ReturnsTrue == [kind |-> "true", mime |-> "", data |-> << >>, w |-> 0, h |-> 0]

Returns(kind, m, data8) ==
  [kind |-> kind, mime |-> m.metrics.mime, data |-> data8, w |-> m.w, h |-> m.h]

\* end(): the image is created from the decoded data.  An ImageData (QOI) is drawn to a
\* canvas and stored at once; a Blob goes to createImageBitmap where the window has it
\* (bitmap), to an Image element otherwise (element).
CreateImage(h, m, data8, hasCreateImageBitmap) ==
  [h |-> DecRelease(h),
   out |-> IF ~hasCreateImageBitmap /\ m.metrics.mime = "image/qoi"
           THEN Returns("stored", m, data8)
           ELSE Returns(IF hasCreateImageBitmap THEN "bitmap" ELSE "element", m, data8)]

\* end(): the decoder has ended without error
Decoded(h, m, hasCreateImageBitmap) ==
  IF ~m.cond THEN [h |-> DecRelease([h EXCEPT !.metrics = m.metrics]), out |-> ReturnsTrue]
  ELSE CreateImage([h EXCEPT !.metrics = m.metrics], m, Data8(h.dec), hasCreateImageBitmap)

\* end(): cond = !this._dec.end()
DecEnd(h, e, hasCreateImageBitmap) ==
  IF e.ret # 0 THEN [h |-> DecRelease([h EXCEPT !.dec = e.s]), out |-> ReturnsTrue]
  ELSE Decoded([h EXCEPT !.dec = e.s], Metrics(h.header, Data8(e.s)), hasCreateImageBitmap)

\* a faulty end: the argument success is not looked at
IIPEndAnyway(h, success, hasCreateImageBitmap) ==
  IF h.aborted THEN [h |-> h, out |-> ReturnsTrue]
  ELSE DecEnd(h, B64EndOp(h.dec), hasCreateImageBitmap)

\* end(success): [h, out]
IIPEndOp(h, success, hasCreateImageBitmap) ==
  IF h.aborted THEN [h |-> h, out |-> ReturnsTrue]
  ELSE IF ~success THEN [h |-> DecRelease(h), out |-> ReturnsTrue]
  ELSE DecEnd(h, B64EndOp(h.dec), hasCreateImageBitmap)

(***************************************************************************)
(* IIPHandler driver: sequences start(), put()*, end(success), one after   *)
(* the other on one handler.  Next to the handler runs a handler that was  *)
(* constructed at the start() of the current sequence and gets the same    *)
(* calls (ifresh).                                                         *)
(***************************************************************************)
\* sequences handled by one handler
MaxAttempts == 2

\* a PNG signature and an IHDR chunk head with the 4 bytes of the width and of the
\* height, nothing else
PngHeadOf(wb, hb) ==
  <<137, 80, 78, 71, 13, 10, 26, 10, 0, 0, 0, 13, 73, 72, 68, 82>> \o wb \o hb

\* the head for an image of w x h pixels, w, h < 256
PngHead(w, h) == PngHeadOf(<<0, 0, 0, w>>, <<0, 0, 0, h>>)

\* a JFIF head with a frame header for an image of w x h pixels
JpegHead(w, h) ==
  <<255, 216, 255, 224, 0, 6, 74, 70, 73, 70, 255, 192, 0, 11, 8, 0, h, 0, w, 3, 0>>
  \o Rep(0, 9)

\* size=24, size=30, size=2, size=6, size=51, size=50, size=0, inline=0, width=50%, width=1
fSize24 == Field(kSize, <<50, 52>>, TRUE, Val("int", <<24>>))
fSize30 == Field(kSize, <<51, 48>>, TRUE, Val("int", <<30>>))
fSize1 == Field(kSize, <<49>>, TRUE, Val("int", <<1>>))
fSize2 == Field(kSize, <<50>>, TRUE, Val("int", <<2>>))
fSize6 == Field(kSize, <<54>>, TRUE, Val("int", <<6>>))
fSizeOver == Field(kSize, <<53, 49>>, TRUE, Val("int", <<51>>))
fSizeZero == Field(kSize, <<48>>, TRUE, Val("int", <<0>>))
fInline0 == Field(kInline, <<48>>, TRUE, Val("int", <<0>>))
fWidthCell == Field(kWidth, <<49>>, TRUE, Val("str", <<49>>))

\* the text of a sequence: the header, ':' and the base64 payload of the bytes
Sequence(prefix, segs, bytes) == prefix \o JoinFields(segs) \o <<58>> \o B64Encode(bytes, TRUE)

IIPInputs ==
  { \* images that pass every check
    Sequence(pFile, <<fInline1, fSize24>>, PngHead(2, 2)),
    Sequence(pFile, <<fSize24, fWidthCell, fInline1>>, PngHead(3, 3)),
    Sequence(pFile, <<fInline1, fSize30>>, JpegHead(2, 1)),
    \* dimension limit, before and after the resize
    Sequence(pFile, <<fInline1, fSize24>>, PngHead(4, 4)),
    Sequence(pFile, <<fInline1, fSize24, fWidthPct>>, PngHead(2, 2)),
    \* dimensions of 2^32 - 1 and 2^32 - 2 pixels
    Sequence(pFile, <<fSize24, fWidthCell, fInline1>>,
             PngHeadOf(<<255, 255, 255, 255>>, <<255, 255, 255, 255>>)),
    Sequence(pFile, <<fInline1, fSize24>>, PngHeadOf(<<255, 255, 255, 254>>, <<0, 0, 0, 3>>)),
    \* unsupported type
    Sequence(pFile, <<fInline1, fSize6>>, <<1, 2, 3, 4, 5, 6>>),
    Sequence(pFile, <<fInline1, fSize1>>, <<65>>),
    \* the decoder fails: fewer bytes than declared, more symbols than declared
    Sequence(pFile, <<fInline1, fSize2>>, <<65>>),
    Sequence(pFile, <<fInline1, fSize1>>, <<65, 66, 67, 68>>),
    \* the header is rejected: inline, size, size limit
    Sequence(pFile, <<fSize6>>, <<1, 2, 3, 4, 5, 6>>),
    Sequence(pFile, <<fInline0, fSize6>>, <<1, 2, 3, 4, 5, 6>>),
    Sequence(pFile, <<fInline1>>, <<65>>),
    Sequence(pFile, <<fInline1, fSizeZero>>, <<65>>),
    Sequence(pFile, <<fInline1, fSizeOver>>, <<65>>),
    \* header errors
    Sequence(pOther, <<fInline1, fSize1>>, <<65>>),
    Sequence(pFile, <<fInline1, fSizeBad>>, <<65>>) }

\* the lengths of the chunk a put call delivers when rest code units are left
ChunkLengths(rest) == {n \in {3, 7, rest} : n > 0 /\ n <= rest}

\* No end() so far in the sequence.  settled: how the promise of end() has settled;
\* stored: the addImage calls of the sequence; success: the argument of end();
\* listening: the Image element has its load listener and will fire load;
\* timer: the timer of setTimeout runs.
NoResult ==
  [out |-> ReturnsTrue, fresh |-> ReturnsTrue, settled |-> "none", stored |-> 0,
   success |-> FALSE, listening |-> FALSE, timer |-> FALSE]

\* start(); the events of the sequence before have happened
IIPStart ==
  /\ ipc \in {"new", "ended"}
  /\ ~ires.listening /\ ~ires.timer
  /\ iin.n < MaxAttempts
  /\ \E text \in IIPInputs : iin' = [text |-> text, n |-> iin.n + 1]
  /\ ih' = IIPStartOp(ih)
  /\ ifresh' = IIPStartOp(IIPNew)
  /\ icur' = 0
  /\ ires' = NoResult
  /\ ipc' = "started"
  /\ UNCHANGED <<qoiVars, b64Vars, hpVars, stVars, addonVars, wkVars, jpVars>>

\* put(data, start, end) with the next n code units of the sequence
IIPPut ==
  /\ ipc = "started"
  /\ \E n \in ChunkLengths(Len(iin.text) - icur) :
       /\ ih' = IIPPutOp(ih, iin.text, icur, icur + n)
       /\ ifresh' = IIPPutOp(ifresh, iin.text, icur, icur + n)
       /\ icur' = icur + n
  /\ UNCHANGED <<ipc, iin, ires>>
  /\ UNCHANGED <<qoiVars, b64Vars, hpVars, stVars, addonVars, wkVars, jpVars>>

\* end(success), at the end of the sequence or before it; true, the synchronous
\* addImage or the promise it returns.  On the path of the Image element the listener of
\* load is added and the timer is set; the image loads later (loads) or, for corrupt
\* data, never
IIPEnd ==
  /\ ipc = "started"
  /\ \E success \in BOOLEAN, hasCreateImageBitmap \in BOOLEAN, loads \in BOOLEAN :
       LET r == IIPEndOp(ih, success, hasCreateImageBitmap)
           f == IIPEndOp(ifresh, success, hasCreateImageBitmap)
       IN /\ ih' = r.h
          /\ ifresh' = f.h
          /\ ires' = [out |-> r.out, fresh |-> f.out,
                      settled |-> IF r.out.kind \in {"true", "stored"} THEN "true" ELSE "pending",
                      stored |-> IF r.out.kind = "stored" THEN 1 ELSE 0,
                      success |-> success,
                      listening |-> r.out.kind = "element" /\ loads,
                      timer |-> r.out.kind = "element"]
          /\ ipc' = IF r.out.kind \in {"true", "stored"} THEN "ended" ELSE "pending"
  /\ UNCHANGED <<iin, icur>>
  /\ UNCHANGED <<qoiVars, b64Vars, hpVars, stVars, addonVars, wkVars, jpVars>>

\* The promise of createImageBitmap settles: it fulfils (then: addImage, true) or it
\* rejects, as it does for corrupt image data; the promise has no rejection handler.
IIPSettle ==
  /\ ipc = "pending"
  /\ ires.out.kind = "bitmap"
  /\ \E created \in BOOLEAN :
       ires' = [ires EXCEPT !.settled = IF created THEN "resolved" ELSE "rejected",
                            !.stored = IF created THEN ires.stored + 1 ELSE ires.stored]
  /\ ipc' = "ended"
  /\ UNCHANGED <<iin, icur, ih, ifresh>>
  /\ UNCHANGED <<qoiVars, b64Vars, hpVars, stVars, addonVars, wkVars, jpVars>>

\* the load event of the Image element: the listener draws the image, calls addImage and
\* then r(true), which settles the promise unless the timer has done so
IIPLoad ==
  /\ ipc \in {"pending", "ended"}
  /\ ires.listening
  /\ ires' = [ires EXCEPT !.stored = ires.stored + 1, !.settled = "resolved", !.listening = FALSE]
  /\ ipc' = "ended"
  /\ UNCHANGED <<iin, icur, ih, ifresh>>
  /\ UNCHANGED <<qoiVars, b64Vars, hpVars, stVars, addonVars, wkVars, jpVars>>

\* the timer of setTimeout(() => r(true), 1000) fires
IIPTimer ==
  /\ ipc \in {"pending", "ended"}
  /\ ires.timer
  /\ ires' = [ires EXCEPT !.settled = "resolved", !.timer = FALSE]
  /\ ipc' = "ended"
  /\ UNCHANGED <<iin, icur, ih, ifresh>>
  /\ UNCHANGED <<qoiVars, b64Vars, hpVars, stVars, addonVars, wkVars, jpVars>>

IIPNext ==
  \/ IIPStart
  \/ IIPPut
  \/ IIPEnd
  \/ IIPSettle
  \/ IIPLoad
  \/ IIPTimer

IIPIdleInput == [text |-> << >>, n |-> 0]

(***************************************************************************)
(* ImageAddon: the options, the storage limit, and the sequences and calls *)
(* that change options.                                                    *)
(* ad = [opts, defaultOpts, activated, storage, handlers, hreset, report]: *)
(* storage = [present, limit] is what the addon sees of its ImageStorage   *)
(* (getLimit gives the value last handed to setLimit, or the storageLimit  *)
(* option the storage was constructed with), handlers the names of the     *)
(* registered protocol handlers, hreset whether the last operation has     *)
(* reset them, report the numbers of the last report sent to the terminal. *)
(***************************************************************************)
MAX_SIXEL_PALETTE_SIZE == 4096

GaItem_COLORS == 1
GaItem_SIXEL_GEO == 2

GaAction_READ == 1
GaAction_SET_DEFAULT == 2
GaAction_SET == 3
GaAction_READ_MAX == 4

GaStatus_SUCCESS == 0
GaStatus_ITEM_ERROR == 1
GaStatus_ACTION_ERROR == 2

DEFAULT_OPTIONS ==
  [enableSizeReports |-> TRUE,
   pixelLimit |-> 16777216,
   sixelSupport |-> TRUE,
   sixelScrolling |-> TRUE,
   sixelPaletteLimit |-> 256,
   sixelSizeLimit |-> 25000000,
   storageLimit |-> 128,
   showPlaceholder |-> TRUE,
   iipSupport |-> TRUE,
   iipSizeLimit |-> 20000000]

\* new ImageAddon(o): both option objects are Object.assign({}, DEFAULT_OPTIONS, o)
AddonNew(o) ==
  [opts |-> [k \in (DOMAIN DEFAULT_OPTIONS) \cup (DOMAIN o) |->
               IF k \in DOMAIN o THEN o[k] ELSE DEFAULT_OPTIONS[k]],
   defaultOpts |-> [k \in (DOMAIN DEFAULT_OPTIONS) \cup (DOMAIN o) |->
                      IF k \in DOMAIN o THEN o[k] ELSE DEFAULT_OPTIONS[k]],
   activated |-> FALSE,
   storage |-> [present |-> FALSE, limit |-> 0],
   handlers |-> {},
   hreset |-> FALSE,
   report |-> << >>]

\* a faulty reset(): every option goes back to its value at construction
AddonResetAll(a) == [a EXCEPT !.opts = a.defaultOpts, !.hreset = TRUE]

\* reset(): the storage is cleared (its limit stays) and the handlers are reset
AddonResetOp(a) ==
  [a EXCEPT !.opts.sixelScrolling = a.defaultOpts.sixelScrolling,
            !.opts.sixelPaletteLimit = a.defaultOpts.sixelPaletteLimit,
            !.hreset = TRUE]

\* _report(s): the numbers of the report reach the terminal
Report(a, nums) == [a EXCEPT !.report = nums, !.hreset = FALSE]

\* Math.floor(Math.sqrt(n)) for n < 4160 * 4160, found in two steps of 64
Isqrt(n) ==
  LET k == CHOOSE j \in 0..64 : (64 * j) * (64 * j) <= n /\ (64 * j + 64) * (64 * j + 64) > n
  IN CHOOSE x \in (64 * k)..(64 * k + 63) : x * x <= n /\ (x + 1) * (x + 1) > n

\* _xtermGraphicsAttributes(params), params[0] = COLORS; a parameter that is an array
\* of sub-parameters (no number) is written as -1
GaColors(a, params) ==
  CASE params[2] = GaAction_READ ->
         Report(a, <<params[1], GaStatus_SUCCESS, a.opts.sixelPaletteLimit>>)
    [] params[2] = GaAction_SET_DEFAULT ->
         [a EXCEPT !.opts.sixelPaletteLimit = a.defaultOpts.sixelPaletteLimit,
                   !.report = <<params[1], GaStatus_SUCCESS, a.defaultOpts.sixelPaletteLimit>>,
                   !.hreset = TRUE]
    [] params[2] = GaAction_SET ->
         IF Len(params) > 2 /\ params[3] >= 0 /\ params[3] <= MAX_SIXEL_PALETTE_SIZE
         THEN [a EXCEPT !.opts.sixelPaletteLimit = params[3],
                        !.report = <<params[1], GaStatus_SUCCESS, params[3]>>,
                        !.hreset = FALSE]
         ELSE Report(a, <<params[1], GaStatus_ACTION_ERROR>>)
    [] params[2] = GaAction_READ_MAX ->
         Report(a, <<params[1], GaStatus_SUCCESS, MAX_SIXEL_PALETTE_SIZE>>)
    [] OTHER -> Report(a, <<params[1], GaStatus_ACTION_ERROR>>)

\* _xtermGraphicsAttributes(params), params[0] = SIXEL_GEO; canvas is the size of the
\* renderer's canvas
GaSixelGeo(a, params, canvas) ==
  CASE params[2] = GaAction_READ ->
         IF canvas.width * canvas.height < a.opts.pixelLimit
         THEN Report(a, <<params[1], GaStatus_SUCCESS, canvas.width, canvas.height>>)
         ELSE Report(a, <<params[1], GaStatus_SUCCESS,
                          Isqrt(a.opts.pixelLimit), Isqrt(a.opts.pixelLimit)>>)
    [] params[2] = GaAction_READ_MAX ->
         Report(a, <<params[1], GaStatus_SUCCESS,
                     Isqrt(a.opts.pixelLimit), Isqrt(a.opts.pixelLimit)>>)
    [] OTHER -> Report(a, <<params[1], GaStatus_ACTION_ERROR>>)

\* _xtermGraphicsAttributes(params)
XtermGraphicsAttributes(a, params, canvas) ==
  IF Len(params) < 2 THEN [a EXCEPT !.hreset = FALSE]
  ELSE IF params[1] = GaItem_COLORS THEN GaColors(a, params)
  ELSE IF params[1] = GaItem_SIXEL_GEO THEN GaSixelGeo(a, params, canvas)
  ELSE Report(a, <<params[1], GaStatus_ITEM_ERROR>>)

(***************************************************************************)
(* ImageAddon driver: construction with some options, activation, and then *)
(* sequences and property accesses in any order.                           *)
(***************************************************************************)
\* the options handed to the constructor
AddonInputs ==
  { << >>,
    [sixelScrolling |-> FALSE],
    [sixelPaletteLimit |-> 16, storageLimit |-> 1, showPlaceholder |-> FALSE] }

\* values assigned to storageLimit
Limits == { 0, 1, 128 }

\* the parameters of DECSET / DECRST
ModeParams == { <<80>>, <<1>>, <<1, 80>> }

\* the parameters of XTSMGRAPHICS
GaParams ==
  { <<1>>, <<1, 1>>, <<1, 2>>, <<1, 3>>, <<1, 3, 16>>, <<1, 3, 4096>>, <<1, 3, 4097>>,
    <<1, 3, -1>>, <<1, 4>>, <<1, 5>>, <<2, 1>>, <<2, 4>>, <<2, 3>>, <<3, 1>> }

\* sizes of the renderer's canvas: below and above the pixel limit
Canvases == { [width |-> 800, height |-> 600], [width |-> 5000, height |-> 5000] }

\* no operation yet: no limit assigned, nothing read
AddonNoCall == [last |-> "new", set |-> -2, ret |-> -2]

\* activate(terminal): the storage is constructed with the options
AddonActivate ==
  /\ ~ad.activated
  /\ ad' = [ad EXCEPT !.activated = TRUE,
                      !.storage = [present |-> TRUE, limit |-> ad.opts.storageLimit],
                      !.handlers = (IF ad.opts.sixelSupport THEN {"sixel"} ELSE {})
                                     \cup (IF ad.opts.iipSupport THEN {"iip"} ELSE {}),
                      !.hreset = FALSE]
  /\ ah' = [ah EXCEPT !.last = "activate"]
  /\ UNCHANGED ain
  /\ UNCHANGED <<qoiVars, b64Vars, hpVars, stVars, iipVars, wkVars, jpVars>>

\* storageLimit = x
AddonSetStorageLimit ==
  /\ \E x \in Limits :
       /\ ad' = [ad EXCEPT !.storage.limit = IF ad.storage.present THEN x ELSE @,
                           !.opts.storageLimit = x,
                           !.hreset = FALSE]
       /\ ah' = [ah EXCEPT !.last = "setStorageLimit", !.set = x]
  /\ UNCHANGED ain
  /\ UNCHANGED <<qoiVars, b64Vars, hpVars, stVars, iipVars, wkVars, jpVars>>

\* reading storageLimit: this._storage?.getLimit() || -1, where 0 and undefined are falsy
AddonGetStorageLimit ==
  /\ ah' = [ah EXCEPT !.last = "getStorageLimit",
                      !.ret = IF ad.storage.present /\ ad.storage.limit # 0
                              THEN ad.storage.limit ELSE -1]
  /\ ad' = [ad EXCEPT !.hreset = FALSE]
  /\ UNCHANGED ain
  /\ UNCHANGED <<qoiVars, b64Vars, hpVars, stVars, iipVars, wkVars, jpVars>>

\* showPlaceholder = value
AddonSetShowPlaceholder ==
  /\ \E value \in BOOLEAN :
       ad' = [ad EXCEPT !.opts.showPlaceholder = value, !.hreset = FALSE]
  /\ ah' = [ah EXCEPT !.last = "setShowPlaceholder"]
  /\ UNCHANGED ain
  /\ UNCHANGED <<qoiVars, b64Vars, hpVars, stVars, iipVars, wkVars, jpVars>>

\* CSI ? params h: _decset(params)
AddonDecset ==
  /\ ad.activated
  /\ \E params \in ModeParams :
       ad' = [ad EXCEPT !.opts.sixelScrolling =
                          IF \E i \in 1..Len(params) : params[i] = 80 THEN FALSE ELSE @,
                        !.hreset = FALSE]
  /\ ah' = [ah EXCEPT !.last = "decset"]
  /\ UNCHANGED ain
  /\ UNCHANGED <<qoiVars, b64Vars, hpVars, stVars, iipVars, wkVars, jpVars>>

\* CSI ? params l: _decrst(params)
AddonDecrst ==
  /\ ad.activated
  /\ \E params \in ModeParams :
       ad' = [ad EXCEPT !.opts.sixelScrolling =
                          IF \E i \in 1..Len(params) : params[i] = 80 THEN TRUE ELSE @,
                        !.hreset = FALSE]
  /\ ah' = [ah EXCEPT !.last = "decrst"]
  /\ UNCHANGED ain
  /\ UNCHANGED <<qoiVars, b64Vars, hpVars, stVars, iipVars, wkVars, jpVars>>

\* CSI ? params S: _xtermGraphicsAttributes(params)
AddonGraphicsAttributes ==
  /\ ad.activated
  /\ \E params \in GaParams : \E canvas \in Canvases :
       ad' = XtermGraphicsAttributes(ad, params, canvas)
  /\ ah' = [ah EXCEPT !.last = "xtermGraphicsAttributes"]
  /\ UNCHANGED ain
  /\ UNCHANGED <<qoiVars, b64Vars, hpVars, stVars, iipVars, wkVars, jpVars>>

\* DECSTR, RIS, Terminal.reset() or a call of reset()
AddonReset ==
  /\ ad' = AddonResetOp(ad)
  /\ ah' = [ah EXCEPT !.last = "reset"]
  /\ UNCHANGED ain
  /\ UNCHANGED <<qoiVars, b64Vars, hpVars, stVars, iipVars, wkVars, jpVars>>

AddonNext ==
  \/ AddonActivate
  \/ AddonSetStorageLimit
  \/ AddonGetStorageLimit
  \/ AddonSetShowPlaceholder
  \/ AddonDecset
  \/ AddonDecrst
  \/ AddonGraphicsAttributes
  \/ AddonReset

(***************************************************************************)
(* The decoder worker (messageHandler).                                     *)
(* wk = [pixelLimit, sizeExceeded, dec, imageBuffer]: dec = [exists, width, *)
(* height] is what the worker reads of its sixel Decoder, imageBuffer the   *)
(* byte length of the pixel buffer at hand (-1: undefined).  The Decoder is *)
(* a library: a new and an initialised decoder have no pixels (width and    *)
(* height 0), decode() leaves any size, release() keeps the size or drops   *)
(* it.  A posted message is [type, null, buffer, width, height].            *)
(***************************************************************************)
WkNew ==
  [pixelLimit |-> 0, sizeExceeded |-> FALSE,
   dec |-> [exists |-> FALSE, width |-> 0, height |-> 0], imageBuffer |-> -1]

\* a message without image payload
Msg(type) == [type |-> type, null |-> FALSE, buffer |-> 0, width |-> 0, height |-> 0]

\* { type: SIXEL_IMAGE, payload: null }
NullImage == [type |-> "SIXEL_IMAGE", null |-> TRUE, buffer |-> 0, width |-> 0, height |-> 0]

\* dec.release(): the decoder keeps its size (keeps) or has none any more
Released(dec, keeps) == IF keeps THEN dec ELSE [dec EXCEPT !.width = 0, !.height = 0]

\* case SIXEL_PUT: [wk, out]; decode() leaves the decoder with the size d
WkSixelPut(w, d, keeps) ==
  IF w.sizeExceeded THEN [wk |-> w, out |-> <<Msg("CHUNK_TRANSFER")>>]
  ELSE IF d.height * d.width > w.pixelLimit
  THEN [wk |-> [w EXCEPT !.sizeExceeded = TRUE,
                         !.dec = Released([w.dec EXCEPT !.width = d.width,
                                                        !.height = d.height], keeps)],
        out |-> <<Msg("SIZE_EXCEEDED"), Msg("CHUNK_TRANSFER")>>]
  ELSE [wk |-> [w EXCEPT !.dec.width = d.width, !.dec.height = d.height],
        out |-> <<Msg("CHUNK_TRANSFER")>>]

\* a faulty case SIXEL_END: the flag sizeExceeded is not looked at
WkSixelEndAnySize(w, success, heavy, keeps) ==
  IF ~success THEN [wk |-> [w EXCEPT !.sizeExceeded = FALSE], out |-> << >>]
  ELSE IF ~w.dec.exists \/ w.dec.width = 0 \/ w.dec.height = 0
  THEN [wk |-> [w EXCEPT !.sizeExceeded = FALSE], out |-> <<NullImage>>]
  ELSE [wk |-> [w EXCEPT !.sizeExceeded = FALSE,
                         !.imageBuffer = -1,
                         !.dec = IF heavy THEN Released(w.dec, keeps) ELSE w.dec],
        out |-> <<[type |-> "SIXEL_IMAGE", null |-> FALSE,
                   buffer |-> Max(w.imageBuffer, w.dec.width * w.dec.height * 4),
                   width |-> w.dec.width, height |-> w.dec.height]>>]

\* a faulty case SIXEL_END: the width and the height are not tested for zero
WkSixelEndEmptyImage(w, success, heavy, keeps) ==
  IF ~success THEN [wk |-> [w EXCEPT !.sizeExceeded = FALSE], out |-> << >>]
  ELSE IF ~w.dec.exists \/ w.sizeExceeded
  THEN [wk |-> [w EXCEPT !.sizeExceeded = FALSE], out |-> <<NullImage>>]
  ELSE [wk |-> [w EXCEPT !.sizeExceeded = FALSE,
                         !.imageBuffer = -1,
                         !.dec = IF heavy THEN Released(w.dec, keeps) ELSE w.dec],
        out |-> <<[type |-> "SIXEL_IMAGE", null |-> FALSE,
                   buffer |-> Max(w.imageBuffer, w.dec.width * w.dec.height * 4),
                   width |-> w.dec.width, height |-> w.dec.height]>>]

\* case SIXEL_END: [wk, out]; heavy: dec.memoryUsage > MEM_PERMA_LIMIT
WkSixelEnd(w, success, heavy, keeps) ==
  IF ~success THEN [wk |-> [w EXCEPT !.sizeExceeded = FALSE], out |-> << >>]
  ELSE IF ~w.dec.exists \/ w.dec.width = 0 \/ w.dec.height = 0 \/ w.sizeExceeded
  THEN [wk |-> [w EXCEPT !.sizeExceeded = FALSE], out |-> <<NullImage>>]
  ELSE [wk |-> [w EXCEPT !.sizeExceeded = FALSE,
                         !.imageBuffer = -1,
                         !.dec = IF heavy THEN Released(w.dec, keeps) ELSE w.dec],
        out |-> <<[type |-> "SIXEL_IMAGE", null |-> FALSE,
                   buffer |-> Max(w.imageBuffer, w.dec.width * w.dec.height * 4),
                   width |-> w.dec.width, height |-> w.dec.height]>>]

(***************************************************************************)
(* Worker driver: the main thread sends ACK with the options, then for     *)
(* every image SIXEL_INIT, SIXEL_PUT for its chunks and SIXEL_END, and     *)
(* hands pixel buffers back with CHUNK_TRANSFER.                           *)
(* wh = [last, phase, exceeded, success]: the type of the last message,    *)
(* where the main thread is, whether a decode of the current image left a  *)
(* size above the limit, and the payload of the last SIXEL_END.            *)
(***************************************************************************)
\* the pixelLimit option of the ACK message: options?.pixelLimit || 0
WkLimits == { 0, 2, 4 }

\* the largest width and height the library's decoder reports
MaxDim == 3

WkSizes == { [width |-> x, height |-> y] : x \in 0..MaxDim, y \in 0..MaxDim }

\* byte lengths of the buffers handed back
WkBuffers == { 4, 16 }

WkNoImage == [last |-> "none", phase |-> "boot", exceeded |-> FALSE, success |-> FALSE]

\* case ACK: a new Decoder, and the reply
WkOnAck ==
  /\ wh.phase = "boot"
  /\ \E limit \in WkLimits :
       wk' = [wk EXCEPT !.pixelLimit = limit,
                        !.dec = [exists |-> TRUE, width |-> 0, height |-> 0]]
  /\ wout' = <<Msg("ACK")>>
  /\ wh' = [wh EXCEPT !.last = "ACK", !.phase = "idle"]
  /\ UNCHANGED <<qoiVars, b64Vars, hpVars, stVars, iipVars, addonVars, jpVars>>

\* case SIXEL_INIT: dec.init(fillColor, null, limit)
WkOnSixelInit ==
  /\ wh.phase = "idle"
  /\ wk' = [wk EXCEPT !.sizeExceeded = FALSE, !.dec.width = 0, !.dec.height = 0]
  /\ wout' = << >>
  /\ wh' = [wh EXCEPT !.last = "SIXEL_INIT", !.phase = "image", !.exceeded = FALSE]
  /\ UNCHANGED <<qoiVars, b64Vars, hpVars, stVars, iipVars, addonVars, jpVars>>

\* case SIXEL_PUT
WkOnSixelPut ==
  /\ wh.phase = "image"
  /\ \E d \in WkSizes : \E keeps \in BOOLEAN :
       /\ wk' = WkSixelPut(wk, d, keeps).wk
       /\ wout' = WkSixelPut(wk, d, keeps).out
       /\ wh' = [wh EXCEPT !.last = "SIXEL_PUT",
                           !.exceeded = @ \/ (~wk.sizeExceeded
                                               /\ d.height * d.width > wk.pixelLimit)]
  /\ UNCHANGED <<qoiVars, b64Vars, hpVars, stVars, iipVars, addonVars, jpVars>>

\* case SIXEL_END, at the end of an image or before the worker has got its ACK
WkOnSixelEnd ==
  /\ wh.phase \in {"boot", "image"}
  /\ \E success \in BOOLEAN : \E heavy \in BOOLEAN : \E keeps \in BOOLEAN :
       /\ wk' = WkSixelEnd(wk, success, heavy, keeps).wk
       /\ wout' = WkSixelEnd(wk, success, heavy, keeps).out
       /\ wh' = [wh EXCEPT !.last = "SIXEL_END", !.success = success,
                           !.phase = IF wh.phase = "boot" THEN "boot" ELSE "idle"]
  /\ UNCHANGED <<qoiVars, b64Vars, hpVars, stVars, iipVars, addonVars, jpVars>>

\* case CHUNK_TRANSFER: the buffer is kept if none is at hand
WkOnChunkTransfer ==
  /\ wh.phase # "boot"
  /\ \E bytes \in WkBuffers :
       wk' = IF wk.imageBuffer = -1 THEN [wk EXCEPT !.imageBuffer = bytes] ELSE wk
  /\ wout' = << >>
  /\ wh' = [wh EXCEPT !.last = "CHUNK_TRANSFER"]
  /\ UNCHANGED <<qoiVars, b64Vars, hpVars, stVars, iipVars, addonVars, jpVars>>

WkNext ==
  \/ WkOnAck
  \/ WkOnSixelInit
  \/ WkOnSixelPut
  \/ WkOnSixelEnd
  \/ WkOnChunkTransfer

\* no call of jpgSize yet
JpgIdle ==
  [d |-> << >>, i |-> 0, blockLength |-> 0, n |-> 0, pc |-> "idle", ret |-> <<0, 0>>]

\* jpgSize up to the loop: i = 4, blockLength = d[i] << 8 | d[i + 1]
JpgSizeEnter(d) ==
  [d |-> d, i |-> 4, blockLength |-> ByteAt(d, 4) * 256 + ByteAt(d, 5), n |-> 0,
   pc |-> "loop", ret |-> <<0, 0>>]

\* an iteration that goes round without moving the index behind the marker
JpgSizeIterateInPlace(j) ==
  LET d == j.d
      i == j.i + j.blockLength
      Return(r) == [j EXCEPT !.i = i, !.n = @ + 1, !.pc = "done", !.ret = r]
  IN IF i >= Len(d) THEN Return(<<0, 0>>)
     ELSE IF ByteAt(d, i) # 255 THEN Return(<<0, 0>>)
     ELSE IF ByteAt(d, i + 1) \in {192, 194}
          THEN IF i + 8 < Len(d)
               THEN Return(<<ByteAt(d, i + 7) * 256 + ByteAt(d, i + 8),
                             ByteAt(d, i + 5) * 256 + ByteAt(d, i + 6)>>)
               ELSE Return(<<0, 0>>)
     ELSE [j EXCEPT !.i = i, !.blockLength = 0, !.n = @ + 1]

\* one iteration of the loop of jpgSize; n counts the iterations
JpgSizeIterate(j) ==
  LET d == j.d
      i == j.i + j.blockLength
      Return(r) == [j EXCEPT !.i = i, !.n = @ + 1, !.pc = "done", !.ret = r]
  IN IF i >= Len(d) THEN Return(<<0, 0>>)
     ELSE IF ByteAt(d, i) # 255 THEN Return(<<0, 0>>)
     ELSE IF ByteAt(d, i + 1) \in {192, 194}
          THEN IF i + 8 < Len(d)
               THEN Return(<<ByteAt(d, i + 7) * 256 + ByteAt(d, i + 8),
                             ByteAt(d, i + 5) * 256 + ByteAt(d, i + 6)>>)
               ELSE Return(<<0, 0>>)
     ELSE [j EXCEPT !.i = i + 2,
                    !.blockLength = ByteAt(d, i + 2) * 256 + ByteAt(d, i + 3),
                    !.n = @ + 1]

\* the blocks the inputs are made of: markers with block lengths 0, 2, 4 and 65535,
\* start-of-frame markers, a block that is no marker
JpgBlocks ==
  { <<255, 1, 0, 2>>, <<255, 1, 0, 4>>, <<255, 1, 0, 0>>, <<255, 1, 255, 255>>,
    <<255, 192, 0, 17>>, <<255, 194, 0, 3>>, <<0, 8, 3, 5>> }

\* the number of blocks behind the ten bytes imageType tests
JpgTailBlocks == 4

\* the blocks of t one behind the other
RECURSIVE JpgTail(_)
JpgTail(t) == IF t = << >> THEN << >> ELSE Head(t) \o JpgTail(Tail(t))

\* byte arrays imageType takes for JPEG: FF D8 FF E0 .. JFIF or FF D8 FF E1 .. Exif
\* with the length of the first block, and JpgTailBlocks blocks
JpgInputs ==
  { <<255, 216, 255, id[1], hi, lo>> \o id[2] \o JpgTail(t) :
      id \in {<<224, <<74, 70, 73, 70>>>>, <<225, <<69, 120, 105, 102>>>>},
      hi \in {0, 255}, lo \in {0, 1, 6, 10, 14},
      t \in [1..JpgTailBlocks -> JpgBlocks] }

\* imageType(d) calls jpgSize(d) for a JPEG head
JpgCall ==
  /\ jp.pc = "idle"
  /\ \E d \in JpgInputs :
       /\ imageType(d).mime = "image/jpeg"
       /\ jp' = JpgSizeEnter(d)
  /\ UNCHANGED <<qoiVars, b64Vars, hpVars, stVars, iipVars, addonVars, wkVars>>

\* the loop of jpgSize runs one iteration
JpgStep ==
  /\ jp.pc = "loop"
  /\ jp' = JpgSizeIterate(jp)
  /\ UNCHANGED <<qoiVars, b64Vars, hpVars, stVars, iipVars, addonVars, wkVars>>

JpgNext ==
  \/ JpgCall
  \/ JpgStep

(***************************************************************************)
(* Specifications: one per component, the other components at rest.        *)
(***************************************************************************)
\* the QOI round trip of one pixel buffer
InitQoi ==
  /\ \/ qpc = "start" /\ qin \in QoiInputs /\ qenc = QoiIdleEnc
     \/ /\ qpc = "encoded" /\ qin \in QoiOverlapInputs
        /\ qenc = EncAll(qin.buf, qin.w, qin.h)
  /\ qdec = QoiIdleDec
  /\ bpc = "idle" /\ bin = B64IdleInput /\ bd = B64New /\ bcur = 0 /\ bret = 0
  /\ bparts = NoParts
  /\ hpc = "idle" /\ hin = HPIdleInput /\ hcur = 0 /\ hp = HPNew /\ hret = 0
  /\ st = StNew(0, FALSE) /\ grid = GridNew /\ stlast = "idle" /\ stbase = -1
  /\ ipc = "idle" /\ iin = IIPIdleInput /\ icur = 0 /\ ih = IIPNew /\ ifresh = IIPNew
  /\ ires = NoResult
  /\ ain = << >> /\ ad = AddonNew(<< >>) /\ ah = AddonNoCall
  /\ wk = WkNew /\ wout = << >> /\ wh = WkNoImage
  /\ jp = JpgIdle

SpecQoi == InitQoi /\ [][QoiNext]_vars

\* the decoding of one base64 payload by a new ChunkInplaceDecoder
InitB64 ==
  /\ qpc = "idle" /\ qin = QoiIdleInput /\ qenc = QoiIdleEnc /\ qdec = QoiIdleDec
  /\ bpc = "new" /\ bin \in B64Inputs /\ bd = B64New /\ bcur = 0 /\ bret = 0
  /\ bparts = NoParts
  /\ hpc = "idle" /\ hin = HPIdleInput /\ hcur = 0 /\ hp = HPNew /\ hret = 0
  /\ st = StNew(0, FALSE) /\ grid = GridNew /\ stlast = "idle" /\ stbase = -1
  /\ ipc = "idle" /\ iin = IIPIdleInput /\ icur = 0 /\ ih = IIPNew /\ ifresh = IIPNew
  /\ ires = NoResult
  /\ ain = << >> /\ ad = AddonNew(<< >>) /\ ah = AddonNoCall
  /\ wk = WkNew /\ wout = << >> /\ wh = WkNoImage
  /\ jp = JpgIdle

SpecB64 == InitB64 /\ [][B64Next]_vars

\* the parsing of one header by a new HeaderParser
InitHP ==
  /\ qpc = "idle" /\ qin = QoiIdleInput /\ qenc = QoiIdleEnc /\ qdec = QoiIdleDec
  /\ bpc = "idle" /\ bin = B64IdleInput /\ bd = B64New /\ bcur = 0 /\ bret = 0
  /\ bparts = NoParts
  /\ hpc = "new" /\ hin \in HPInputs /\ hcur = 0 /\ hp = HPNew /\ hret = 0
  /\ st = StNew(0, FALSE) /\ grid = GridNew /\ stlast = "idle" /\ stbase = -1
  /\ ipc = "idle" /\ iin = IIPIdleInput /\ icur = 0 /\ ih = IIPNew /\ ifresh = IIPNew
  /\ ires = NoResult
  /\ ain = << >> /\ ad = AddonNew(<< >>) /\ ah = AddonNoCall
  /\ wk = WkNew /\ wout = << >> /\ wh = WkNoImage
  /\ jp = JpgIdle

SpecHP == InitHP /\ [][HPNext]_vars

\* an empty storage with some capacity, placeholders on or off
InitStorage ==
  /\ qpc = "idle" /\ qin = QoiIdleInput /\ qenc = QoiIdleEnc /\ qdec = QoiIdleDec
  /\ bpc = "idle" /\ bin = B64IdleInput /\ bd = B64New /\ bcur = 0 /\ bret = 0
  /\ bparts = NoParts
  /\ hpc = "idle" /\ hin = HPIdleInput /\ hcur = 0 /\ hp = HPNew /\ hret = 0
  /\ st \in {StNew(c, p) : c \in Capacities, p \in BOOLEAN} /\ grid = GridNew
  /\ stlast = "new" /\ stbase = -1
  /\ ipc = "idle" /\ iin = IIPIdleInput /\ icur = 0 /\ ih = IIPNew /\ ifresh = IIPNew
  /\ ires = NoResult
  /\ ain = << >> /\ ad = AddonNew(<< >>) /\ ah = AddonNoCall
  /\ wk = WkNew /\ wout = << >> /\ wh = WkNoImage
  /\ jp = JpgIdle

SpecStorage == InitStorage /\ [][StNext]_vars

\* sequences on one IIPHandler
InitIIP ==
  /\ qpc = "idle" /\ qin = QoiIdleInput /\ qenc = QoiIdleEnc /\ qdec = QoiIdleDec
  /\ bpc = "idle" /\ bin = B64IdleInput /\ bd = B64New /\ bcur = 0 /\ bret = 0
  /\ bparts = NoParts
  /\ hpc = "idle" /\ hin = HPIdleInput /\ hcur = 0 /\ hp = HPNew /\ hret = 0
  /\ st = StNew(0, FALSE) /\ grid = GridNew /\ stlast = "idle" /\ stbase = -1
  /\ ipc = "new" /\ iin = IIPIdleInput /\ icur = 0 /\ ih = IIPNew /\ ifresh = IIPNew
  /\ ires = NoResult
  /\ ain = << >> /\ ad = AddonNew(<< >>) /\ ah = AddonNoCall
  /\ wk = WkNew /\ wout = << >> /\ wh = WkNoImage
  /\ jp = JpgIdle

SpecIIP == InitIIP /\ [][IIPNext]_vars

\* an ImageAddon constructed with some options
InitAddon ==
  /\ qpc = "idle" /\ qin = QoiIdleInput /\ qenc = QoiIdleEnc /\ qdec = QoiIdleDec
  /\ bpc = "idle" /\ bin = B64IdleInput /\ bd = B64New /\ bcur = 0 /\ bret = 0
  /\ bparts = NoParts
  /\ hpc = "idle" /\ hin = HPIdleInput /\ hcur = 0 /\ hp = HPNew /\ hret = 0
  /\ st = StNew(0, FALSE) /\ grid = GridNew /\ stlast = "idle" /\ stbase = -1
  /\ ipc = "idle" /\ iin = IIPIdleInput /\ icur = 0 /\ ih = IIPNew /\ ifresh = IIPNew
  /\ ires = NoResult
  /\ ain \in AddonInputs /\ ad = AddonNew(ain) /\ ah = AddonNoCall
  /\ wk = WkNew /\ wout = << >> /\ wh = WkNoImage
  /\ jp = JpgIdle

SpecAddon == InitAddon /\ [][AddonNext]_vars

\* a decoder worker that has received no message yet
InitWorker ==
  /\ qpc = "idle" /\ qin = QoiIdleInput /\ qenc = QoiIdleEnc /\ qdec = QoiIdleDec
  /\ bpc = "idle" /\ bin = B64IdleInput /\ bd = B64New /\ bcur = 0 /\ bret = 0
  /\ bparts = NoParts
  /\ hpc = "idle" /\ hin = HPIdleInput /\ hcur = 0 /\ hp = HPNew /\ hret = 0
  /\ st = StNew(0, FALSE) /\ grid = GridNew /\ stlast = "idle" /\ stbase = -1
  /\ ipc = "idle" /\ iin = IIPIdleInput /\ icur = 0 /\ ih = IIPNew /\ ifresh = IIPNew
  /\ ires = NoResult
  /\ ain = << >> /\ ad = AddonNew(<< >>) /\ ah = AddonNoCall
  /\ wk = WkNew /\ wout = << >> /\ wh = WkNoImage
  /\ jp = JpgIdle

SpecWorker == InitWorker /\ [][WkNext]_vars

\* calls of jpgSize by imageType; the loop, once entered, goes on running
InitJpg ==
  /\ qpc = "idle" /\ qin = QoiIdleInput /\ qenc = QoiIdleEnc /\ qdec = QoiIdleDec
  /\ bpc = "idle" /\ bin = B64IdleInput /\ bd = B64New /\ bcur = 0 /\ bret = 0
  /\ bparts = NoParts
  /\ hpc = "idle" /\ hin = HPIdleInput /\ hcur = 0 /\ hp = HPNew /\ hret = 0
  /\ st = StNew(0, FALSE) /\ grid = GridNew /\ stlast = "idle" /\ stbase = -1
  /\ ipc = "idle" /\ iin = IIPIdleInput /\ icur = 0 /\ ih = IIPNew /\ ifresh = IIPNew
  /\ ires = NoResult
  /\ ain = << >> /\ ad = AddonNew(<< >>) /\ ah = AddonNoCall
  /\ wk = WkNew /\ wout = << >> /\ wh = WkNoImage
  /\ jp = JpgIdle

SpecJpg == InitJpg /\ [][JpgNext]_vars /\ WF_vars(JpgStep)

(***************************************************************************)
(* Properties of the QOI codec.                                            *)
(***************************************************************************)
\* C1: decoding the encoding of a pixel buffer of width w and height h gives a buffer of
\* the same length, equal to the original pixel by pixel (byte for byte), and the
\* decoder reports the width w and the height h.
QoiRoundTrip ==
  qpc = "done" =>
    /\ Len(qdec.res) = Len(qin.buf)
    /\ qdec.res = qin.buf
    /\ qdec.width = qin.w
    /\ qdec.height = qin.h

\* a round trip of a run longer than the run limit followed by another pixel, decoded
\* into memory that held other pixels before
QoiRoundTripDone ==
  /\ qpc = "done"
  /\ Len(qin.buf) > MAX_RUN + 1
  /\ qin.buf[Len(qin.buf)] # qin.buf[1]
  /\ qin.stale # PxZero
  /\ qdec.res = qin.buf
  /\ qdec.width = qin.w

(***************************************************************************)
(* Properties of the base64 stream decoder.                                *)
(***************************************************************************)
\* the decoder has given its verdict: a put call failed, or end() returned
B64Done == bpc \in {"ended", "failed"}

\* the payload was reported as decoded
B64Ok == bpc = "ended" /\ bret = 0

\* C2: however the payload is split into put calls (empty chunks included), the verdict
\* of the decoder is the one a single put call of the whole payload gives, and on success
\* data8 holds the same bytes.
ChunkingEquivalence ==
  B64Done =>
    /\ B64Ok = OneShot(bin).ok
    /\ B64Ok => Data8(bd) = OneShot(bin).data

\* a payload of more than TandemSize symbols, delivered in several put calls with an
\* empty chunk among them, was decoded to what the single put call gives
ChunkedDecodeDone ==
  /\ B64Ok
  /\ bin.kind = "padded"
  /\ Len(bin.payload) > TandemSize
  /\ bparts.puts > 1
  /\ bparts.empty
  /\ OneShot(bin).ok
  /\ Data8(bd) = OneShot(bin).data

\* C3: for a byte string b of length n >= 1, init(n), put of the base64 encoding of b
\* (padded or with the padding omitted) and end() report success, and data8 is b.
ValidPayloadDecodes ==
  (bin.kind \in {"padded", "unpadded"} /\ bin.size >= 1) =>
    /\ bpc # "failed"
    /\ bpc = "ended" => (bret = 0 /\ Data8(bd) = bin.orig)

\* an unpadded encoding of a byte string whose length is no multiple of 3 was decoded
UnpaddedDecodeDone ==
  /\ B64Ok
  /\ bin.kind = "unpadded"
  /\ bin.size % 3 = 2
  /\ 255 \in {bin.orig[i] : i \in 1..Len(bin.orig)}
  /\ Data8(bd) = bin.orig

\* C4: a byte outside the 64-symbol alphabet inserted into a valid payload makes a put
\* call or end() fail; the decoder never reports success.
InsertedByteFails == (bin.kind = "insert" /\ B64Done) => ~B64Ok

\* C5: a payload with a symbol replaced by a byte outside the alphabet, or with a pad
\* that is followed by a symbol that is no pad, is never reported as decoded.
ReplacedSymbolFails ==
  (/\ bin.kind = "replace"
   /\ B64Done
   /\ \/ bin.sym # PAD
      \/ \E j \in (bin.pos + 1)..Len(bin.payload) : bin.payload[j] # PAD) => ~B64Ok

(***************************************************************************)
(* Properties of the header parser.                                        *)
(***************************************************************************)
\* a parse call has returned something else than -2
HPDecided == hpc = "decided"

\* the header begins with the marker File followed by '='
BeginsWithMarker(in) == Len(in.text) >= Len(pFile) /\ SubSeq(in.text, 1, Len(pFile)) = pFile

\* a legal field: key = value with a value that is legal for the key
LegalField(f) == f.eq /\ f.key # << >> /\ f.want # BadVal

\* File=, then legal fields with distinct keys, then ':' and the payload
WellFormed(in) ==
  /\ in.prefix = pFile
  /\ in.term
  /\ \A i \in 1..Len(in.segs) : LegalField(in.segs[i])
  /\ \A i, j \in 1..Len(in.segs) : in.segs[i].key = in.segs[j].key => i = j

\* the fields a well-formed header is to give
WantedFields(segs) ==
  [k \in {segs[i].key : i \in 1..Len(segs)} |->
     segs[CHOOSE i \in 1..Len(segs) : segs[i].key = k].want]

\* C6: when parse consumes the first ':' of a header that starts with File= (and holds
\* legal key=value pairs), the state is END, the value returned is the index just after
\* that ':' (the first payload byte), greater than 0 and neither -1 nor -2, and fields
\* holds the decoded value of every pair.
HeaderBoundary ==
  (HPDecided /\ WellFormed(hin)) =>
    /\ hp.state = HS_END
    /\ hret = hin.colon + 1
    /\ hret > 0
    /\ hret \notin {-1, -2}
    /\ hp.fields = WantedFields(hin.segs)

\* the header name=YQ==;size=100;width=auto;height=auto;inline=1 was parsed in fragments
\* (an earlier call had returned -2 inside a field) and the value returned points at the
\* first byte of the payload
ExampleHeaderParsed ==
  /\ HPDecided
  /\ hin.prefix = pFile
  /\ hin.segs = ExampleFields
  /\ hp.state = HS_END
  /\ hp.position > 0
  /\ SubSeq(hin.text, hret + 1, hret + Len(Payload)) = Payload
  /\ hp.fields[kSize] = Val("int", <<100>>)
  /\ hp.fields[kInline] = Val("int", <<1>>)
  /\ hp.fields[kWidth] = Val("str", <<97, 117, 116, 111>>)

\* C7: however the input is split into fragments, the outcome is the one of a single parse
\* call of the whole input: the same state, the same fields, the same payload position;
\* the calls before the deciding one return -2.
FragmentEquivalence ==
  LET whole == ParseWhole(hin)
  IN /\ HPDecided => /\ hret = whole.ret
                     /\ hp.state = whole.h.state
                     /\ hp.fields = whole.h.fields
     /\ (hpc = "parsing" /\ hcur = Len(hin.text)) =>
          /\ whole.ret = -2
          /\ hp.state = whole.h.state
          /\ hp.fields = whole.h.fields

\* the i-th field of the header is the first that is not legal, and it is too long
OverlongAt(in, i) ==
  /\ in.prefix = pFile
  /\ i \in 1..Len(in.segs)
  /\ in.segs[i] \in {fKeyOver, fValOver}
  /\ \A j \in 1..(i - 1) : LegalField(in.segs[j])

\* File=, one field whose key or value has exactly MAX_FIELDCHARS characters, ':'
FullLength(in) ==
  in.prefix = pFile /\ in.term /\ (in.segs = <<fKeyMax>> \/ in.segs = <<fValMax>>)

\* C8 (as it holds): a key or a value of more than MAX_FIELDCHARS characters makes parse
\* return -1 in state ABORT, and fields holds no value for that field: the key of an
\* over-long value maps to null, an over-long key has no entry; a field of exactly
\* MAX_FIELDCHARS characters is accepted.
OverflowAborts ==
  /\ \A i \in 1..Len(hin.segs) :
       (HPDecided /\ OverlongAt(hin, i)) =>
         /\ hret = -1
         /\ hp.state = HS_ABORT
         /\ hin.segs[i].key \in DOMAIN hp.fields => hp.fields[hin.segs[i].key] = NullVal
         /\ hin.segs[i] = fKeyOver => hin.segs[i].key \notin DOMAIN hp.fields
  /\ (HPDecided /\ FullLength(hin)) =>
       /\ hp.state = HS_END
       /\ hp.fields = WantedFields(hin.segs)

\* size=4 was stored, an earlier call had returned -2 inside a field, then the over-long
\* value of the next field made the parse abort
OverflowAborted ==
  /\ HPDecided
  /\ hin.prefix = pFile
  /\ hin.segs = <<fSize4, fValOver>>
  /\ hret = -1
  /\ hp.state = HS_ABORT
  /\ hp.position > 0
  /\ hp.fields[kSize] = Val("int", <<4>>)
  /\ hp.fields[fValOver.key] = NullVal

\* C8 (as claimed): a key or a value of more than MAX_FIELDCHARS characters makes parse
\* return -1 in state ABORT and leaves no entry for that field in fields; a field of
\* exactly MAX_FIELDCHARS characters is accepted.
OverflowLeavesNoEntry ==
  /\ \A i \in 1..Len(hin.segs) :
       (HPDecided /\ OverlongAt(hin, i)) =>
         /\ hret = -1
         /\ hp.state = HS_ABORT
         /\ hin.segs[i].key \notin DOMAIN hp.fields
  /\ (HPDecided /\ FullLength(hin)) =>
       /\ hp.state = HS_END
       /\ hp.fields = WantedFields(hin.segs)

\* C9: parse reaches END and returns a payload index only for an input that begins with
\* File followed by '='; any other text before the first '=' or ':' gives -1 and ABORT.
MarkerRequired ==
  HPDecided =>
    /\ (hp.state = HS_END \/ hret >= 0) => BeginsWithMarker(hin)
    /\ ~BeginsWithMarker(hin) => (hret = -1 /\ hp.state = HS_ABORT)

WrittenCells == {c \in 1..NCells : grid'[grid.active][c] = st.nextId}

\* the image id was stored before the step and is not stored after it
RemovedInStep(id) == id \in Ids(st.images) /\ id \notin Ids(st'.images)

\* the image id still had a cell pointing at it when the eviction of the step began:
\* a reference that the step did not overwrite
LiveAtEviction(id) ==
  \/ RefsIn(grid, IF grid.active = "normal" THEN "alt" ELSE "normal", id) # {}
  \/ RefsIn(grid, grid.active, id) \ (IF stlast' = "addImage" THEN WrittenCells ELSE {}) # {}

\* C11: capacity pressure (an insertion, a lower limit) removes images in insertion
\* order, oldest first: an image that leaves while a cell still points at it, that is for
\* capacity, leaves no image inserted earlier behind, and the image just inserted leaves
\* only after every other image.
FifoEviction ==
  [][stlast' \in {"addImage", "setCapacity"} =>
       /\ \A id \in Ids(st.images) :
            RemovedInStep(id) /\ LiveAtEviction(id) =>
              \A older \in Ids(st'.images) : older > id
       /\ (stlast' = "addImage" /\ st.nextId \notin Ids(st'.images)) => st'.images = << >>
    ]_vars

\* a lower limit has evicted the oldest image only (its cell shows the placeholder); the
\* image inserted after it is still stored
OldestEvictedFirst ==
  /\ stlast = "setCapacity"
  /\ st.images # << >>
  /\ Head(st.images).id = 2
  /\ GetUsage(st) = GetCapacity(st)
  /\ \E c \in 1..NCells : grid.normal[c] = PLACEHOLDER

\* every cell reference of the image id lies on the alternate buffer
OnAlternateOnly(g, id) == RefsIn(g, "alt", id) # {} /\ RefsIn(g, "normal", id) = {}

\* the images stored in s that the wipe leaves alone
NormalImages(s, g) == SelectSeq(s.images, LAMBDA img : ~OnAlternateOnly(g, img.id))

\* the terminal leaves the alternate buffer: the step is the wipe of a buffer change
LeavesAlternate == stlast' = "wipeAlternate" /\ grid.active = "alt"

LivenessRemoval ==
  /\ \A id \in Ids(st.images) : RefCount(grid, id) > 0
  /\ GetUsage(st) = Usage(st)

\* the one image inserted, which fitted the capacity, is gone after its cells were
\* cleared, and the usage is 0
ClearedImageGone ==
  /\ stlast = "onCellsOverwritten"
  /\ st.nextId = 2
  /\ st.capacity = 4 * BYTES_PER_PIXEL
  /\ st.images = << >>
  /\ GetUsage(st) = 0
  /\ \A c \in 1..NCells : grid.normal[c] = NO_REF /\ grid.alt[c] = NO_REF

\* C14: a limit set below the current usage evicts before it returns: the usage read
\* right after the assignment is lower than before and not above the new limit.
SynchronousLimit ==
  [][(stlast' = "setCapacity" /\ GetCapacity(st') < GetUsage(st)) =>
       /\ GetUsage(st') < GetUsage(st)
       /\ GetUsage(st') <= GetCapacity(st')
       /\ GetUsage(st') = Usage(st')
    ]_vars

\* the limit was set to 0 while images were stored: none is left, their cells show the
\* placeholder
LimitLoweredToZero ==
  /\ stlast = "setCapacity"
  /\ GetCapacity(st) = 0
  /\ st.nextId > 2
  /\ st.images = << >>
  /\ GetUsage(st) = 0
  /\ \A c \in 1..NCells : grid.normal[c] = PLACEHOLDER

(***************************************************************************)
(* The moment at which the base64 decoder reports a bad byte.              *)
(***************************************************************************)
\* p holds a byte that is none of the 64 symbols nor the pad, or a pad followed by
\* another symbol than the pad
HasInvalidByte(p) ==
  \E i \in 1..Len(p) :
    \/ ~InAlphabet(p[i]) /\ p[i] # PAD
    \/ p[i] = PAD /\ i < Len(p) /\ p[i + 1] # PAD

\* C20: the put call that delivers a byte which is none of the 64 symbols, or a pad that
\* is not terminal, returns the failure signal itself: no put call that has returned 0
\* has delivered such a byte.
PutFailsAtOnce ==
  (bpc = "open" /\ bparts.puts > 0 /\ bret = 0) =>
    ~HasInvalidByte(SubSeq(bin.payload, 1, bcur))

(***************************************************************************)
(* Properties of the IIP handler.                                          *)
(***************************************************************************)
\* end() has returned
IIPEnded == ipc \in {"pending", "ended"}

\* C16: end() never throws and never yields a rejected promise: whatever start and put
\* calls came before and however the creation of the bitmap ends, end() returns true or
\* a promise that resolves.
EndNeverRejects == ires.settled # "rejected"

\* C17: when end() has returned, the base64 decoder has been released after its last
\* init, on the paths that hand no image to the storage as on the others: it exposes no
\* decoded data and its pointers are reset.
DecoderReleased ==
  IIPEnded =>
    /\ ih.calls.released
    /\ Data8(ih.dec) = << >>
    /\ ih.dec.wp = 0 /\ ih.dec.sp = 0 /\ ih.dec.dp = 0

\* the decoder was initialised in this sequence, a put call on it has failed, and end()
\* has returned true: the decoder still has its memory, with the pointers reset
AbortedAttemptReleased ==
  /\ ipc = "ended"
  /\ ires.out.kind = "true"
  /\ ih.aborted
  /\ ih.calls.inits = 1
  /\ ih.calls.puts > 0
  /\ ih.dec.inst
  /\ ih.calls.released

\* what a sequence can observe of a handler: flags, header, parser, metrics, the calls
\* made on the decoder, the decoder's pointers and the decoded data
Observable(h) ==
  [aborted |-> h.aborted, hp |-> h.hp, header |-> h.header, metrics |-> h.metrics,
   calls |-> h.calls, wp |-> h.dec.wp, sp |-> h.dec.sp, dp |-> h.dec.dp,
   data8 |-> Data8(h.dec)]

\* C18: a sequence that follows another one on the same handler, however that one ended,
\* is processed as by a handler constructed for it: at every call both show the same
\* flags, header, parser state and decoded data, and end() returns the same.
FreshEquivalence ==
  (iin.n >= 2 /\ ipc # "new") =>
    /\ Observable(ih) = Observable(ifresh)
    /\ ires.out = ires.fresh

\* the second sequence has been decoded in memory that the decoder kept from the first
\* one, and has ended
SecondAttemptDone ==
  /\ ipc = "ended"
  /\ iin.n = 2
  /\ ih.calls.inits = 1
  /\ ~ih.aborted
  /\ ih.dec.inst
  /\ Len(ih.dec.data) > Len(ifresh.dec.data)

\* the number the header parser holds for the key k, 0 without one
Declared(k) == IF k \in DOMAIN ih.hp.fields THEN NumberOf(ih.hp.fields[k]) ELSE 0

\* C19: when the header is complete and its size is above iipSizeLimit, or 0 or missing,
\* or inline is 0 or missing, the sequence is aborted before the decoder's init: neither
\* init nor any put of the sequence reaches the decoder.
RejectedBeforeInit ==
  (/\ ipc # "new"
   /\ ih.hp.state = HS_END
   /\ \/ Declared(kSize) > IipSizeLimit
      \/ Declared(kSize) = 0
      \/ Declared(kInline) = 0) =>
    /\ ih.aborted
    /\ ih.calls.inits = 0
    /\ ih.calls.puts = 0
    /\ Data8(ih.dec) = << >>

\* a sequence that declares a size above the limit was delivered to its end, payload
\* included, and the decoder was never called
OversizeRejected ==
  /\ ipc = "ended"
  /\ ih.hp.state = HS_END
  /\ Declared(kInline) = 1
  /\ Declared(kSize) > IipSizeLimit
  /\ icur = Len(iin.text)
  /\ ih.aborted
  /\ ih.calls.inits = 0

(***************************************************************************)
(* The verdict of the base64 decoder's end().                              *)
(***************************************************************************)
\* C21: end() reports success only if the number of decoded bytes is the size given to
\* init, and it reports failure when fewer than 2 symbols are left for the final group
\* (also when nothing was put at all).
EndVerdict ==
  bpc = "ended" =>
    /\ bret = 0 => Len(Data8(bd)) = bin.size
    /\ bd.wp - bd.sp < 2 => bret # 0

\* a payload that breaks off one symbol behind a decoded group was refused by end()
EndShortGroup ==
  /\ bpc = "ended"
  /\ bin.kind = "truncate"
  /\ bd.wp - bd.sp = 1
  /\ Len(Data8(bd)) = 3
  /\ bret # 0

(***************************************************************************)
(* The pointers of the base64 decoder.                                     *)
(***************************************************************************)
\* C26: after init and after every put call, failed or not, the pointers satisfy
\* 0 <= dp <= sp <= wp <= eSize with eSize = ceil(size / 3) * 4, sp is a multiple of 4
\* and dp = 3 * sp / 4; sp is on a 4-symbol boundary after end() as well.
PointerInvariant ==
  /\ bpc \in {"open", "failed", "again"} =>
       /\ 0 <= bd.dp /\ bd.dp <= bd.sp /\ bd.sp <= bd.wp /\ bd.wp <= bd.esize
       /\ bd.esize = CeilDiv(bin.size, 3) * 4
       /\ 4 * bd.dp = 3 * bd.sp
  /\ bpc # "new" => bd.sp % 4 = 0

\* a put call has decoded the first group and left symbols undecoded
GroupConsumed ==
  /\ bpc = "open"
  /\ bd.sp = 4
  /\ bd.dp = 3
  /\ bd.wp > bd.sp

(***************************************************************************)
(* The base64 decoder after a failure.                                     *)
(***************************************************************************)
\* C27: once a put call has returned failure, every later put or end call on the
\* instance returns failure and data8 does not grow (no init in between).
NoDecodingAfterFailure ==
  [][(bpc \in {"failed", "again"}) =>
       /\ bret' # 0
       /\ Len(Data8(bd')) <= Len(Data8(bd))
    ]_vars

\* C28: after a put or end call has reported failure, data8 is empty.
NoOutputAfterFailure ==
  (bpc \in {"failed", "again", "ended", "reended"} /\ bret # 0) => Data8(bd) = << >>

(***************************************************************************)
(* In-place decoding of base64.                                            *)
(***************************************************************************)
\* the symbols of the payload delivered but not yet consumed are still in the buffer s
UnreadIntact(s) == \A k \in (s.sp + 1)..s.wp : s.data[k] = U8(bin.payload[k])

\* the State when end() turns to the final group: behind dec() if end() calls it
BeforeTail(s) == IF s.wp - s.sp > 4 THEN WasmDec(s).s ELSE s

\* C29: decoding in place never overwrites a symbol that is still to be read: after every
\* put call, and after the dec() call inside end(), the buffer holds the delivered symbols
\* from the consumed pointer up to the write pointer, and the word that end() stores for the
\* final group starts at or below that group.
InPlaceSafe ==
  bpc = "open" =>
    /\ UnreadIntact(bd)
    /\ UnreadIntact(BeforeTail(bd))
    /\ BeforeTail(bd).dp <= BeforeTail(bd).sp

\* a put call has written the bytes of the first group over its symbols while the second
\* group waits unread
InPlaceOverwritten ==
  /\ bpc = "open"
  /\ bd.sp = 4
  /\ bd.wp = 8
  /\ SubSeq(bd.data, 1, 3) = SubSeq(bin.orig, 1, 3)
  /\ bd.data[4] # bin.payload[4]
  /\ UnreadIntact(bd)

(***************************************************************************)
(* The header parser behind its verdict.                                   *)
(***************************************************************************)
\* C22: a parse call on a parser that has reached END or ABORT returns -1 and leaves the
\* parser (state, fields, key, buffer and position) as it was, for every range.
ParseAfterVerdict ==
  [][(hpc \in {"decided", "again"} /\ hp.state \in {HS_END, HS_ABORT}) =>
       /\ hret' = -1
       /\ hp' = hp
    ]_vars

\* parse was called on a parser that had reached END with fields stored, and on one that
\* had aborted
ParsedAfterEnd ==
  /\ hpc = "again"
  /\ hp.state = HS_END
  /\ hp.fields # << >>
  /\ hret = -1

\* C30: when parse returns -1 for a parser that has not reached END, the state of the
\* parser is ABORT after the call.
FailureMeansAbort ==
  (hpc \in {"decided", "again"} /\ hret = -1 /\ hp.state # HS_END) => hp.state = HS_ABORT

(***************************************************************************)
(* Properties of ImageAddon.                                               *)
(***************************************************************************)
\* C23: on an activated addon, reading storageLimit after the assignment storageLimit = x
\* gives x, for every x >= 0.
StorageLimitRoundTrip ==
  (ad.activated /\ ah.last = "getStorageLimit" /\ ah.set >= 0) => ah.ret = ah.set

\* the options of an addon constructed with the options o
Constructed(o) == AddonNew(o).opts

\* C25: after DECSET 80, DECRST 80 and palette changes by XTSMGRAPHICS in any order,
\* reset() gives sixelScrolling and sixelPaletteLimit the values of the construction and
\* leaves storageLimit, the limit of the storage and every other option as they were.
ResetRestoresSequenceOptions ==
  [][ah'.last = "reset" =>
       /\ ad'.opts = [ad.opts EXCEPT
                        !.sixelScrolling = Constructed(ain).sixelScrolling,
                        !.sixelPaletteLimit = Constructed(ain).sixelPaletteLimit]
       /\ ad'.storage = ad.storage
       /\ ad'.defaultOpts = Constructed(ain)
    ]_vars

\* reset() has undone a mode and a palette size set by sequences and kept a storage
\* limit and a placeholder setting assigned at run time
ResetAfterSequences ==
  /\ ah.last = "reset"
  /\ ad.activated
  /\ ad.opts.sixelScrolling = Constructed(ain).sixelScrolling
  /\ ad.opts.sixelPaletteLimit = Constructed(ain).sixelPaletteLimit
  /\ ad.opts.storageLimit # Constructed(ain).storageLimit
  /\ ad.opts.showPlaceholder # Constructed(ain).showPlaceholder
  /\ ad.storage.limit = ad.opts.storageLimit
  /\ ad.report = <<1, 0, 16>>

(***************************************************************************)
(* Properties of the decoder worker.                                       *)
(***************************************************************************)
\* C24: no SIXEL_IMAGE message with an image has more pixels than the pixelLimit of the
\* ACK options, and the SIXEL_END of an image during which a decode went beyond the limit
\* posts no image: the null payload when the sequence succeeded, nothing otherwise.
PixelLimitRespected ==
  /\ \A i \in 1..Len(wout) :
       (wout[i].type = "SIXEL_IMAGE" /\ ~wout[i].null) =>
         wout[i].width * wout[i].height <= wk.pixelLimit
  /\ (wh.last = "SIXEL_END" /\ wh.exceeded) =>
       wout = IF wh.success THEN <<NullImage>> ELSE << >>

\* C24 as stated: no image message goes beyond the limit, and every SIXEL_END of an image
\* that went beyond the limit posts the null payload.
ExceededEndsWithNull ==
  /\ \A i \in 1..Len(wout) :
       (wout[i].type = "SIXEL_IMAGE" /\ ~wout[i].null) =>
         wout[i].width * wout[i].height <= wk.pixelLimit
  /\ (wh.last = "SIXEL_END" /\ wh.exceeded) => wout = <<NullImage>>

\* an image whose decoder still reports a size above the limit has ended with the null
\* payload
OversizedImageDropped ==
  /\ wh.last = "SIXEL_END"
  /\ wh.exceeded
  /\ wh.success
  /\ wk.dec.width * wk.dec.height > wk.pixelLimit
  /\ wout = <<NullImage>>


(***************************************************************************)
(* Segments without '='.                                                   *)
(***************************************************************************)
\* the last segment of the header that is written key=value with the key k
LastPair(segs, k) ==
  segs[CHOOSE i \in 1..Len(segs) :
         /\ segs[i].eq /\ segs[i].key = k
         /\ \A j \in (i + 1)..Len(segs) : ~(segs[j].eq /\ segs[j].key = k)]

\* C31: the value stored for a key is the decoded text between that key's '=' and the next
\* ';' or ':'; a later segment without '=' (99, or an empty segment) does not change it.
ValueFromOwnSegment ==
  (HPDecided /\ hp.state = HS_END /\ hin.prefix = pFile) =>
    \A k \in DOMAIN hp.fields : hp.fields[k] = LastPair(hin.segs, k).want


(***************************************************************************)
(* The payload the handler hands to its base64 decoder.                    *)
(***************************************************************************)
\* the 1-based position of the first ':' of the text (0 without one)
FirstColon(text) ==
  IF \A i \in 1..Len(text) : text[i] # 58 THEN 0
  ELSE CHOOSE i \in 1..Len(text) : text[i] = 58 /\ \A j \in 1..(i - 1) : text[j] # 58

\* C32: in a sequence that is not aborted, the ranges handed to the decoder's put, one
\* after the other, are the code units of the sequence behind the ':' of the header up to
\* where the sequence has been delivered, none dropped, none twice, for every split into
\* put calls; before the ':' nothing is handed to the decoder.
PayloadHandedOver ==
  (ipc # "new" /\ ~ih.aborted) =>
    IF ih.hp.state = HS_END
    THEN /\ FirstColon(iin.text) \in 1..icur
         /\ ih.calls.fed = SubSeq(iin.text, FirstColon(iin.text) + 1, icur)
    ELSE ih.calls.fed = << >> /\ ih.calls.puts = 0

\* a put call ended directly behind the ':' (the decoder got an empty range), a later one
\* delivered the rest, and the whole payload has been handed over
SplitBehindColon ==
  /\ ipc = "started"
  /\ ~ih.aborted
  /\ ih.hp.state = HS_END
  /\ ih.hp.position = 0
  /\ iin.text = Sequence(pFile, <<fInline1, fSize6>>, <<1, 2, 3, 4, 5, 6>>)
  /\ icur = Len(iin.text)
  /\ ih.calls.puts = 2
  /\ ih.calls.fed = B64Encode(<<1, 2, 3, 4, 5, 6>>, TRUE)


(***************************************************************************)
(* The pixel limit and the dimensions of a PNG header.                     *)
(***************************************************************************)
\* end() has made an image of the decoded data: it went to createImageBitmap, to an Image
\* element or to the storage
ImageMade == IIPEnded /\ ires.out.kind \in {"bitmap", "element", "stored"}

\* the 4 bytes b, read as an unsigned big-endian value, are below n (n <= 256)
UnsignedBelow(b, n) == b[1] = 0 /\ b[2] = 0 /\ b[3] = 0 /\ b[4] < n

\* the pixel count of the PNG header of d, width and height read as unsigned values, is
\* below the pixel limit (the limit is at most 256)
PngPixelsBelowLimit(d) ==
  LET wb == SubSeq(d, 17, 20)
      hb == SubSeq(d, 21, 24)
  IN \/ wb = <<0, 0, 0, 0>>
     \/ hb = <<0, 0, 0, 0>>
     \/ /\ UnsignedBelow(wb, PixelLimit) /\ UnsignedBelow(hb, PixelLimit)
        /\ wb[4] * hb[4] < PixelLimit

\* C35: no image goes to the bitmap creation or to the storage when the pixel count of its
\* PNG header, width and height read as unsigned 32-bit big-endian values, is at or above
\* the pixel limit; the width and the height imageType returns are never negative.
PngPixelLimit ==
  /\ ih.metrics.width >= 0 /\ ih.metrics.height >= 0
  /\ (ImageMade /\ ires.out.mime = "image/png") => PngPixelsBelowLimit(ires.out.data)


(***************************************************************************)
(* The calls of addImage.                                                  *)
(***************************************************************************)
\* the decoder, initialised with the declared size and given the payload handed over,
\* ends without error
DecoderEndsWell(h) ==
  OneShot([size |-> NumberOf(h.header.size), payload |-> h.calls.fed]).ok

\* C33: addImage is called at most once in a sequence from start to end, and only if the
\* header was completed with inline # 0 and 0 < size <= iipSizeLimit, no put was rejected
\* by the decoder, end was called with success = true, the end of the decoder succeeded,
\* the type of the image is supported, and width and height are not zero with
\* width * height below pixelLimit.
AddImageOnlyIfAccepted ==
  /\ ires.stored <= 1
  /\ ires.stored = 1 =>
       /\ ih.hp.state = HS_END
       /\ NumberOf(ih.header.inline) # 0
       /\ NumberOf(ih.header.size) > 0
       /\ NumberOf(ih.header.size) <= IipSizeLimit
       /\ ~ih.aborted
       /\ ires.success
       /\ DecoderEndsWell(ih)
       /\ ih.metrics.mime # "unsupported"
       /\ ih.metrics.width # 0 /\ ih.metrics.height # 0
       /\ ih.metrics.width * ih.metrics.height < PixelLimit
       /\ ires.out.w # 0 /\ ires.out.h # 0
       /\ ires.out.w * ires.out.h < PixelLimit

\* a JPEG image was delivered in several put calls, end(true) handed it to
\* createImageBitmap, and the bitmap was added to the storage
JpegStoredOnce ==
  /\ ipc = "ended"
  /\ ires.stored = 1
  /\ ires.out.kind = "bitmap"
  /\ ires.settled = "resolved"
  /\ ih.metrics.mime = "image/jpeg"
  /\ ih.calls.puts = 2


(***************************************************************************)
(* The Image element of the path without createImageBitmap.                *)
(***************************************************************************)
\* C34: on the path without createImageBitmap an image is added to the storage only
\* before the promise of end() has resolved; once it has resolved, by the load event or by
\* the timer, no later load event of the sequence adds an image.
NoImageAfterResolve ==
  [][(ires.out.kind = "element" /\ ires.settled = "resolved") => ires'.stored <= ires.stored]_vars


(***************************************************************************)
(* The run opcode of the pixel decoder.                                    *)
(***************************************************************************)
\* the decoder is in its loop
Decoding == qpc \in {"dec", "cdec"}

\* the opcode the next iteration of the loop of dec() reads
NextOp == ByteAt(qenc.bytes, qdec.rp)

\* the next iteration of the loop reads a run opcode
RunIsNext ==
  /\ Decoding
  /\ DecMore(qdec, qenc.bytes)
  /\ BitAnd(NextOp, QOI_MASK_2) = QOI_OP_RUN
  /\ NextOp < QOI_OP_RGB

\* the pixels of the sequence out from position from + 1 on are all px
AllCopies(out, from, px) == \A k \in (from + 1)..Len(out) : out[k] = px

\* C36 (as claimed): a run opcode emits low 6 bits + 1 copies of the previous pixel, at
\* most 62, and leaves every entry of the colour cache as it was.
RunLeavesCache ==
  [][RunIsNext =>
       /\ Len(qdec'.out) = Len(qdec.out) + BitAnd(NextOp, 63) + 1
       /\ Len(qdec'.out) - Len(qdec.out) <= MAX_RUN
       /\ AllCopies(qdec'.out, Len(qdec.out), qdec.px)
       /\ qdec'.index = qdec.index]_vars

\* C36 (as it holds): a run opcode emits copies of the previous pixel: low 6 bits + 1 of
\* them, at most 62, or fewer (but at least one) when the pixel count of the header is
\* reached before; it leaves the previous pixel as it is and changes no entry of the
\* colour cache but the one at the hash of the previous pixel, which holds the previous
\* pixel afterwards.
RunWritesOwnSlot ==
  [][RunIsNext =>
       /\ Len(qdec'.out) - Len(qdec.out) \in 1..(BitAnd(NextOp, 63) + 1)
       /\ Len(qdec'.out) - Len(qdec.out) <= MAX_RUN
       /\ \/ Len(qdec'.out) = Len(qdec.out) + BitAnd(NextOp, 63) + 1
          \/ Len(qdec'.out) >= qdec.pixels
       /\ SubSeq(qdec'.out, 1, Len(qdec.out)) = qdec.out
       /\ AllCopies(qdec'.out, Len(qdec.out), qdec.px)
       /\ qdec'.px = qdec.px
       /\ qdec'.rp = qdec.rp + 1
       /\ \A k \in 0..63 : k # QOI_COLOR_HASH(qdec.px) => qdec'.index[k] = qdec.index[k]
       /\ qdec'.index[QOI_COLOR_HASH(qdec.px)] = qdec.px]_vars

\* the first opcode of the image was a run of 62 copies of the start pixel: the pixels
\* are written and the cache, zeroed before, holds the start pixel at its hash
RunFromStart ==
  /\ qpc = "dec"
  /\ qdec.rp = QOI_HEADER_SIZE + 1
  /\ ByteAt(qenc.bytes, QOI_HEADER_SIZE) = QOI_OP_RUN + MAX_RUN - 1
  /\ qdec.out = Rep(PxStart, MAX_RUN)
  /\ qdec.index[QOI_COLOR_HASH(PxStart)] = PxStart
  /\ qdec.index # IndexZero


(***************************************************************************)
(* The cursors of the pixel decoder in the memory.                         *)
(***************************************************************************)
\* the address of the next pixel dec() writes, and of the next byte it reads
WriteCursor == DST_P + 4 * Len(qdec.out)

ReadCursor == ChunkP(qenc.bytes) + qdec.rp

\* the decoder runs or has run
DecodeStarted == qpc \in {"dec", "cdec", "done", "cdone"}

\* C37: for every input, also a corrupt one whose opcodes describe more pixels than
\* width * height of the header, the decoder writes pixels only inside the destination
\* region [DST_P, DST_P + 4 * width * height) and never over encoded bytes it has not
\* read yet.
WritesInsideDestination ==
  DecodeStarted =>
    /\ WriteCursor <= DST_P + 4 * Max(qdec.pixels, 0)
    /\ WriteCursor <= ReadCursor

\* the encoded bytes begin below the end of the destination region
Overlapping == ChunkP(qenc.bytes) < DST_P + 4 * qdec.pixels

\* C38: for a well-formed encoded image, placed at the end of the memory as decode
\* does, the write cursor of the pixels stays strictly behind the read cursor during the
\* whole decode, also where the encoded bytes and the destination overlap.
WriteBehindRead == qpc \in {"dec", "done"} => WriteCursor < ReadCursor

\* an image whose encoded bytes begin inside the destination region is being decoded:
\* the first pixels are written, most of the encoded bytes are still to be read
OverlapDecodeRunning ==
  /\ qpc = "dec"
  /\ DecMore(qdec, qenc.bytes)
  /\ Overlapping
  /\ Len(qdec.out) > 0
  /\ ChunkP(qenc.bytes) + Len(qenc.bytes) > DST_P + 4 * qdec.pixels

(***************************************************************************)
(* The answer of the decoder worker to SIXEL_END.                          *)
(***************************************************************************)
\* the step is the handling of a SIXEL_END message with the payload true
EndOfSuccess == wh.phase \in {"boot", "image"} /\ wh'.last = "SIXEL_END" /\ wh'.success

\* C39: a SIXEL_END with the payload true is answered by exactly one SIXEL_IMAGE message;
\* its payload is null exactly when there is no decoder, the decoded width or height is
\* zero, or the pixel limit was exceeded during the image.  The flag sizeExceeded is set
\* only within an image that has exceeded the limit, so it is false before the first
\* SIXEL_PUT of the next image.
EndAnsweredOnce ==
  [][/\ wk'.sizeExceeded => (wh'.phase = "image" /\ wh'.exceeded)
     /\ EndOfSuccess =>
          /\ Len(wout') = 1
          /\ wout'[1].type = "SIXEL_IMAGE"
          /\ wout'[1].null <=> \/ ~wk.dec.exists
                               \/ wk.dec.width = 0
                               \/ wk.dec.height = 0
                               \/ wh.exceeded
          /\ ~wout'[1].null => /\ wout'[1].width = wk.dec.width
                               /\ wout'[1].height = wk.dec.height
          /\ ~wk'.sizeExceeded]_vars

\* an image within the limit has ended with one SIXEL_IMAGE message that carries it, in a
\* buffer handed back before
ImageDelivered ==
  /\ wh.last = "SIXEL_END"
  /\ wh.phase = "idle"
  /\ wh.success
  /\ ~wh.exceeded
  /\ Len(wout) = 1
  /\ wout[1].type = "SIXEL_IMAGE"
  /\ ~wout[1].null
  /\ wout[1].width * wout[1].height > 0
  /\ wout[1].buffer > wout[1].width * wout[1].height * 4


\* C40: jpgSize terminates for every byte array imageType hands it: an iteration of its
\* loop that is followed by another one has advanced the read index by at least 2, the
\* loop has run at most length / 2 iterations at any time, and a call that has entered
\* the loop returns.
JpgSizeTerminates ==
  /\ [](jp.n * 2 <= Len(jp.d))
  /\ [][(jp.pc = "loop" /\ jp'.pc = "loop") => jp'.i >= jp.i + 2]_vars
  /\ (jp.pc = "loop" ~> jp.pc = "done")

\* a call has walked over every block behind the head, one iteration each, and returned
\* when the index had left the array
JpgWalkedAllBlocks ==
  /\ jp.pc = "done"
  /\ jp.n = JpgTailBlocks + 1
  /\ jp.i >= Len(jp.d)

====
